---- MODULE Spec2Model ----
(***************************************************************************)
(* State-machine model of the Simba WebSocket gateway                      *)
(* (src-server/websocketHandlers.js, shipped concatenated in               *)
(* controlWorker.js) and of the session manager it calls.                  *)
(*                                                                         *)
(* Node.js runs one callback at a time; an async handler gives up control  *)
(* only at an await.  Every handler invocation is a record in `handlers`   *)
(* whose pc names the await it is parked at.  A pc in ReadyPcs is a        *)
(* continuation whose promise has already settled: it runs as a microtask, *)
(* before any further event (message, close, timer, device I/O).           *)
(*                                                                         *)
(* Spec      start / disconnect / close / error and the session manager    *)
(* SpecCmd   JSON commands and their responses (adbCommand, volume,        *)
(*           getVolume, navAction, wifiToggle, getWifiStatus,              *)
(*           getBatteryLevel, launchApp, unknown actions)                  *)
(* SpecProc  interactive shells, HAR traces and diagnostics across         *)
(*           connect and close                                             *)
(* SpecClient(Fair)  the browser's pending ADB commands                    *)
(* SpecCtl   binary control frames: gateway and control worker             *)
(* SpecStart the stream options of start messages (handleStart)            *)
(* SpecPort  local ports over session starts and stops                     *)
(* SpecShell the echoes, writes and output of the interactive shells       *)
(* SpecVolume  volume messages and the device's media volume               *)
(* SpecRotate  adbRotateScreen and cleanupAdb over the rotation settings   *)
(* SpecWifi(Fair)  wifiToggle and its polling of the device                *)
(* SpecOverlay the browser's start and stop of a stream (startStreaming,   *)
(*           stopStreamingAndCleanup, handleStreamingStopped)              *)
(* SpecTaskbar the WM size and density of a native_taskbar start           *)
(* SpecDecode  the browser's decoding of binary packets                    *)
(***************************************************************************)
EXTENDS Integers, Sequences, FiniteSets, Bags, TLC

\* ------------------------------------------------------------------ bounds
\* At most MaxH handler invocations are parked at an await at the same time.
MaxH == 2

\* Client ids (crypto.randomUUID()) and session ids (31-bit random numbers).
Clients == {1, 2}
SCIDS == {1, 2}
NULL == 0

\* ------------------------------------------------------------------- state
VARIABLES
    wsClients,      \* keys of the wsClients map
    clientSession,  \* client object -> its `session` field (NULL or a scid)
    wsState,        \* client -> readyState of its WebSocket
    sessions,       \* sessionManager.sessions: scid -> session record
    handlers,       \* bag of the handler invocations parked at an await
    out,            \* ws.send calls made by the last step, in order
    cmds,           \* the JSON commands received so far, in order of arrival
    cmdPending,     \* indices in cmds of the handlers parked at a device call
    inbox,          \* the responses sent to the clients, in order of sending
    procs,          \* the device shells and child processes that are running
    nproc,          \* number of processes started so far
    activeShells,   \* activeShells: clientId -> its shell (NULL: no entry)
    harTraceProc,   \* ws._harTraceProc of each connection (NULL: null)
    diagnosticsProcesses,  \* diagnosticsProcesses: deviceId -> logcat process
    harTimers,      \* connections with a pending SIGTERM timer of stopHarTrace
    sockets,        \* browser: readyState of every WebSocket it created
    gws,            \* browser: globalState.ws (NULL or an index in sockets)
    pendingAdbCommands,  \* browser: keys of globalState.pendingAdbCommands
    timers,         \* browser: commandIds whose 15 s timer has not fired yet
    awaiting,       \* commands on the wire or in the server, not answered yet
    settled,        \* per command issued: resolve/reject calls, and by what
    rx,             \* the binary frames the gateway received, in order
    ctlSock,        \* scid -> state of session.controlSocket
    workers,        \* keys of sessionManager.workers
    toWorker,       \* scid -> messages posted to the session's worker, unread
    fromWorker,     \* messages the workers posted to the main thread, in order
    android,        \* Android major version the attached device reports
    settings,       \* client -> the stream options its start messages carry
    ports,          \* scid -> local port of the session
    shellIO,        \* echoes, writes and output lines of the shells, in order
    maxVolume,      \* session.maxVolume of the running session (0: not cached)
    devVolume,      \* device: media volume index
    devRange,       \* device: highest media volume index
    adbCalls,       \* device shell commands issued by the last step, in order
    volumeValue,    \* the value field of the volume messages the clients send
    userRotation,   \* device: settings system user_rotation
    accelRotation,  \* device: settings system accelerometer_rotation
    rotationStates, \* adbService.rotationStates[deviceId] (Absent: no entry)
    adbCmds,        \* adbRotateScreen and cleanupAdb handlers parked at an await
    nadb,           \* number of such commands received so far
    rotBefore,      \* the rotation settings before the first rotation (or Absent)
    undisturbed,    \* since then no device call failed and no two commands overlapped
    wifiCmds,       \* handleWifiToggleCommand invocations parked at an await
    wifiLog,        \* per wifiToggle received: its polls, observations and answers
    isRunning,      \* browser: globalState.isRunning
    currentDisplayMode,  \* browser: globalState.currentDisplayMode
    starts,         \* browser: startStreaming calls parked at an await
    nstart,         \* number of startStreaming calls that passed the guards
    startLog,       \* per startStreaming call: its commands and their responses
    wire,           \* the start, disconnect and cleanupAdb messages the browser sent
    streamMode,     \* display mode of the stream started last and not stopped since
    wmSettings,     \* browser: resolution and dpi of the native_taskbar start
    wmPc,           \* browser: where the native_taskbar start is parked
    wmLog,          \* browser: WM commands and start message of that start
    decoded         \* browser: the last binary message and the decoder calls it made

vars == <<wsClients, clientSession, wsState, sessions, handlers, out,
          cmds, cmdPending, inbox,
          procs, nproc, activeShells, harTraceProc, diagnosticsProcesses, harTimers,
          sockets, gws, pendingAdbCommands, timers, awaiting, settled,
          rx, ctlSock, workers, toWorker, fromWorker,
          android, settings, ports, shellIO,
          maxVolume, devVolume, devRange, adbCalls, volumeValue,
          userRotation, accelRotation, rotationStates, adbCmds, nadb,
          rotBefore, undisturbed, wifiCmds, wifiLog,
          isRunning, currentDisplayMode, starts, nstart, startLog, wire, streamMode,
          wmSettings, wmPc, wmLog, decoded>>

svars == <<wsClients, clientSession, wsState, sessions, handlers>>

cvars == <<cmds, cmdPending, inbox>>

pvars == <<procs, nproc, activeShells, harTraceProc, diagnosticsProcesses, harTimers>>

kvars == <<sockets, gws, pendingAdbCommands, timers, awaiting, settled>>

wvars == <<rx, ctlSock, workers, toWorker, fromWorker>>

\* The browser's stream controls.
ovars == <<isRunning, currentDisplayMode, starts, nstart, startLog, wire, streamMode>>

\* The browser's native_taskbar start and its decoding of binary messages.
bvars == <<wmSettings, wmPc, wmLog, decoded>>

\* The device's Android version and the options of the clients do not change
\* while the gateway runs, and the gateway does not see the browser's state.
evars == <<android, settings, volumeValue, ovars, bvars>>

\* The device's settings, the values the gateway caches of them, and the
\* device commands of the last step.
rvars == <<userRotation, accelRotation, rotationStates, adbCmds, nadb,
           rotBefore, undisturbed>>

tvars == <<wifiCmds, wifiLog>>

dvars == <<maxVolume, devVolume, devRange, adbCalls, rvars, tvars>>

\* The state outside the gateway's start/stop, command and process handling.
xvars == <<kvars, wvars, evars, dvars, ports, shellIO>>

\* The state of the gateway as a whole.
gateway == <<svars, out, cvars, pvars>>

\* The state the browser's handlers leave alone.
nonClient == <<gateway, wvars, evars, dvars, ports, shellIO>>

\* The state the control path leaves alone.
nonCtl == <<svars, cvars, pvars, kvars, evars, dvars, ports, shellIO>>

\* A parked handler: its client, the await it is parked at, the scid it
\* generated (handleStart), the scid whose cleanup it awaits, whether its
\* lookup of the client in wsClients found an entry, and the deviceId of its
\* message (handleStartDiagnostics).
Handler(k, c, p) == [kind |-> k, client |-> c, pc |-> p, scid |-> NULL,
                     wscid |-> NULL, hadClient |-> FALSE, dev |-> NULL]

Parked == BagToSet(handlers)

Park(hs, r) == hs (+) SetToBag({r})

Unpark(hs, r) == hs (-) SetToBag({r})

Move(hs, r, q) == Park(Unpark(hs, r), q)

InFlight == BagCardinality(handlers)

Msg(c, t, m) == [to |-> c, type |-> t, message |-> m]

WaitPcs == {"setupCleanup", "catchCleanup", "discCleanup", "closeCleanup", "errCleanup"}

ReadyPcs == {"attach", "catch", "catchEnd", "discEnd", "closeEnd", "errEnd"}

ReadyOf(pc) ==
    CASE pc = "setupCleanup" -> "catch"
      [] pc = "catchCleanup" -> "catchEnd"
      [] pc = "discCleanup" -> "discEnd"
      [] pc = "closeCleanup" -> "closeEnd"
      [] pc = "errCleanup" -> "errEnd"
      [] OTHER -> pc

\* No settled continuation is pending: the event loop may take the next event.
NoMicrotask == \A r \in Parked : r.pc \notin ReadyPcs

OwnedBy(c) == {s \in DOMAIN sessions : sessions[s].clientId = c}

\* ------------------------------------------------- options of a start message
\* message.video as it arrives: absent, the boolean true or false, or the
\* string "false"; enableAudio and enableControl are booleans.
VideoInputs == {"absent", "bool:true", "bool:false", "str:false"}

Requested(v, a, k) == [video |-> v, enableAudio |-> a, enableControl |-> k]

StartOptions == {Requested(v, a, k) : v \in VideoInputs, a \in BOOLEAN, k \in BOOLEAN}

\* Android versions a device may report (a release that does not start with a
\* number is the outcome "throws" of StartProbe).
AndroidVersions == {10, 11}

\* First Android version whose audio the device server can capture.
AudioMinAndroid == 11

\* String(b) of a boolean.
Str(b) == IF b THEN "true" ELSE "false"

\* Mutant of RunOptions: audio follows the request whatever the version.
RunOptions_AudioAsRequested(msg, ver) ==
    [audio |-> Str(msg.enableAudio),
     video |-> Str(~(msg.video = "bool:false" \/ msg.video = "str:false")),
     control |-> Str(msg.enableControl)]

\* The stream options handleStart passes to setupScrcpySession.
RunOptions(msg, ver) ==
    [audio |-> IF ver < AudioMinAndroid THEN "false" ELSE Str(msg.enableAudio),
     video |-> Str(~(msg.video = "bool:false" \/ msg.video = "str:false")),
     control |-> Str(msg.enableControl)]

\* Mutant of AudioNote: the note does not look at the request.
AudioNote_Always(msg, ver) == ver < AudioMinAndroid

\* Whether handleStart sends "Audio disabled (Android < 11)" after the setup.
AudioNote(msg, ver) == ver < AudioMinAndroid /\ msg.enableAudio

\* message.value of a volume message: whether its text starts with an integer,
\* that integer, and whether more text follows it ("58%", 58.5).
Value(lead, n, rest) == [lead |-> lead, n |-> n, rest |-> rest]

\* An entry of adbService.rotationStates, and the value that stands for a
\* device without one.
RotationState(u, a) == [user_rotation |-> u, accelerometer_rotation |-> a]

Absent == RotationState(-1, -1)

\* The browser before the first click: nothing runs, the display mode is the
\* default one.
NoStreaming ==
    /\ isRunning = FALSE
    /\ currentDisplayMode = "default"
    /\ starts = {}
    /\ nstart = 0
    /\ startLog = <<>>
    /\ wire = <<>>
    /\ streamMode = "none"
    /\ wmSettings = [resolution |-> [kind |-> "reset", a |-> 0, b |-> 0],
                     dpi |-> [kind |-> "reset", a |-> 0, b |-> 0]]
    /\ wmPc = "idle"
    /\ wmLog = <<>>
    /\ decoded = <<>>

\* The device as the specifications that send it no setting commands see it:
\* nothing is cached of it and no device command has been issued.
DefaultDevice ==
    /\ maxVolume = 0
    /\ devVolume = 0
    /\ devRange = 1
    /\ adbCalls = <<>>
    /\ volumeValue = Value(TRUE, 0, FALSE)
    /\ userRotation = 0
    /\ accelRotation = 1
    /\ rotationStates = Absent
    /\ adbCmds = {}
    /\ nadb = 0
    /\ rotBefore = Absent
    /\ undisturbed = TRUE
    /\ wifiCmds = {}
    /\ wifiLog = <<>>
    /\ NoStreaming

\* The options every client sends and the device all specifications but
\* SpecStart run with: everything requested, on Android 10.  No session has a
\* port and no shell has seen input yet.
DefaultEnv ==
    /\ android = 10
    /\ settings = [c \in Clients |-> Requested("absent", TRUE, TRUE)]
    /\ ports = <<>>
    /\ shellIO = <<>>
    /\ DefaultDevice

Init ==
    /\ wsClients = {}
    /\ clientSession = [c \in Clients |-> NULL]
    /\ wsState = [c \in Clients |-> "NONE"]
    /\ sessions = <<>>
    /\ handlers = EmptyBag
    /\ out = <<>>
    /\ cmds = <<>>
    /\ cmdPending = {}
    /\ inbox = <<>>
    /\ procs = {}
    /\ nproc = 0
    /\ activeShells = [c \in Clients |-> NULL]
    /\ harTraceProc = [c \in Clients |-> NULL]
    /\ diagnosticsProcesses = <<>>
    /\ harTimers = {}
    /\ sockets = <<>>
    /\ gws = NULL
    /\ pendingAdbCommands = {}
    /\ timers = {}
    /\ awaiting = {}
    /\ settled = <<>>
    /\ rx = <<>>
    /\ ctlSock = <<>>
    /\ workers = {}
    /\ toWorker = <<>>
    /\ fromWorker = <<>>
    /\ DefaultEnv

\* wss.on("connection"): a fresh clientId is registered with session null.
Connect(c) ==
    /\ NoMicrotask
    /\ wsState[c] = "NONE"
    /\ wsState' = [wsState EXCEPT ![c] = "OPEN"]
    /\ wsClients' = wsClients \cup {c}
    /\ clientSession' = [clientSession EXCEPT ![c] = NULL]
    /\ out' = <<>>
    /\ UNCHANGED <<sessions, handlers>>
    /\ UNCHANGED <<cvars, xvars, pvars>>

\* ------------------------------------------- sessionManager (scrcpySession.js)
\* Mutant of SetupRejects: the scid is not compared with the live sessions.
SetupRejects_AnyScid(scid, streams) == ~streams

\* setupScrcpySession refuses, before it registers anything, a call whose
\* options enable no stream, and a scid that names a live session.
SetupRejects(scid, streams) == ~streams \/ scid \in DOMAIN sessions

\* The session record setupScrcpySession registers while it provisions;
\* `stops` counts the "Streaming stopped" statuses sent for the session.
NewSession(c, o) ==
    [clientId |-> c, state |-> "Provisioning", stops |-> 0, options |-> o]

\* setupScrcpySession expects one socket for each of video, audio and control
\* whose option is "true".
Streams(o) == o.video = "true" \/ o.audio = "true" \/ o.control = "true"

\* cleanupSession(scid), synchronous part: a session that exists and is not
\* being torn down yet is put in Draining.
CleanupCall(ss, scid) ==
    IF scid \in DOMAIN ss /\ ss[scid].state # "Draining"
    THEN [ss EXCEPT ![scid].state = "Draining"]
    ELSE ss

\* Where the caller of cleanupSession(scid) continues: it returns at once for
\* an absent session, otherwise the caller awaits the end of the teardown.
CleanupPc(ss, scid, waitPc) ==
    IF scid \in DOMAIN ss THEN waitPc ELSE ReadyOf(waitPc)

\* The callers awaiting cleanupSession(s) become ready to continue.
Resumed(r, s) ==
    IF r.pc \in WaitPcs /\ r.wscid = s THEN [r EXCEPT !.pc = ReadyOf(r.pc)] ELSE r

Resume(hs, s) ==
    LET img == {Resumed(r, s) : r \in BagToSet(hs)}
    IN  [q \in img |-> hs[CHOOSE r \in BagToSet(hs) : Resumed(r, s) = q]]

\* cleanupSession, final part (detach from the owner, status to the owner if
\* its socket is open, delete the record); every awaiting caller is resumed.
CleanupEnd(s) ==
    /\ NoMicrotask
    /\ s \in DOMAIN sessions
    /\ sessions[s].state = "Draining"
    /\ LET o == sessions[s].clientId
       IN  /\ clientSession' =
                 IF o \in wsClients /\ clientSession[o] = s
                 THEN [clientSession EXCEPT ![o] = NULL]
                 ELSE clientSession
           /\ out' = IF o \in wsClients /\ wsState[o] = "OPEN"
                     THEN <<Msg(o, "status", "Streaming stopped")>>
                     ELSE <<>>
    /\ sessions' = [x \in DOMAIN sessions \ {s} |-> sessions[x]]
    /\ handlers' = Resume(handlers, s)
    /\ UNCHANGED <<wsClients, wsState>>
    /\ UNCHANGED <<cvars, xvars, pvars>>

\* A running session ends by itself (device socket error or EOF): the session
\* manager calls cleanupSession on it.
SessionEnds(s) ==
    /\ NoMicrotask
    /\ s \in DOMAIN sessions
    /\ sessions[s].state = "Running"
    /\ sessions' = CleanupCall(sessions, s)
    /\ out' = <<>>
    /\ UNCHANGED <<wsClients, clientSession, wsState, handlers>>
    /\ UNCHANGED <<cvars, xvars, pvars>>

\* setupScrcpySession resolves: the session is Running and the owner is told.
SetupResolve(r) ==
    /\ NoMicrotask
    /\ r.pc = "setup"
    /\ r.scid \in DOMAIN sessions
    /\ sessions[r.scid].clientId = r.client
    /\ sessions[r.scid].state = "Provisioning"
    /\ sessions' = [sessions EXCEPT ![r.scid].state = "Running"]
    /\ out' = IF r.client \in wsClients /\ wsState[r.client] = "OPEN"
              THEN <<Msg(r.client, "status", "Streaming started")>>
              ELSE <<>>
    /\ handlers' = Move(handlers, r, [r EXCEPT !.pc = "attach"])
    /\ UNCHANGED <<wsClients, clientSession, wsState>>
    /\ UNCHANGED <<cvars, xvars, pvars>>

\* setupScrcpySession fails while provisioning (or its session was torn down
\* under it): it calls cleanupSession(scid) and then rejects.
SetupFail(r) ==
    /\ NoMicrotask
    /\ r.pc = "setup"
    /\ sessions' = CleanupCall(sessions, r.scid)
    /\ handlers' = Move(handlers, r,
                        [r EXCEPT !.pc = CleanupPc(sessions, r.scid, "setupCleanup"),
                                  !.wscid = r.scid])
    /\ out' = <<>>
    /\ UNCHANGED <<wsClients, clientSession, wsState>>
    /\ UNCHANGED <<cvars, xvars, pvars>>

\* -------------------------------------------------- gateway: start / stop
\* handleStart, entry: refused when the client already has a session or names
\* no device; otherwise the handler parks at its first await.
RecvStart(c) ==
    /\ NoMicrotask
    /\ wsState[c] = "OPEN"
    /\ c \in wsClients
    /\ \E hasDevice \in BOOLEAN :
         IF clientSession[c] # NULL
         THEN /\ out' = <<Msg(c, "error", "Session already active")>>
              /\ UNCHANGED handlers
         ELSE IF ~hasDevice
         THEN /\ out' = <<Msg(c, "error", "No device selected.")>>
              /\ UNCHANGED handlers
         ELSE /\ InFlight < MaxH
              /\ handlers' = Park(handlers, Handler("start", c, "probe"))
              /\ out' = <<>>
    /\ UNCHANGED <<wsClients, clientSession, wsState, sessions>>
    /\ UNCHANGED <<cvars, xvars, pvars>>

\* Mutant of StartProbe: client.session is set to the new scid before
\* setupScrcpySession is awaited.
StartProbe_AttachEarly(r) ==
    /\ NoMicrotask
    /\ r.pc = "probe"
    /\ \E outcome \in {"unavailable", "throws", "ok"} :
         CASE outcome = "unavailable" ->
                /\ out' = <<Msg(r.client, "error", "Device not available")>>
                /\ handlers' = Unpark(handlers, r)
                /\ UNCHANGED <<sessions, clientSession>>
           [] outcome = "throws" ->
                /\ out' = <<>>
                /\ handlers' = Move(handlers, r, [r EXCEPT !.pc = "catch"])
                /\ UNCHANGED <<sessions, clientSession>>
           [] outcome = "ok" ->
                \E scid \in SCIDS :
                  LET runOptions == RunOptions(settings[r.client], android)
                      streams == Streams(runOptions)
                  IN
                  /\ out' = <<Msg(r.client, "launcherAppsList", "")>>
                  /\ clientSession' = [clientSession EXCEPT ![r.client] = scid]
                  /\ IF SetupRejects(scid, streams)
                     THEN /\ handlers' = Move(handlers, r,
                                 [r EXCEPT !.pc = "catch", !.scid = scid])
                          /\ UNCHANGED sessions
                     ELSE /\ handlers' = Move(handlers, r,
                                 [r EXCEPT !.pc = "setup", !.scid = scid])
                          /\ sessions' = sessions @@ (scid :> NewSession(r.client, runOptions))
    /\ UNCHANGED <<wsClients, wsState>>
    /\ UNCHANGED <<cvars, xvars, pvars>>

\* handleStart from the device checks to the call of setupScrcpySession.  The
\* awaits in between (device list, launcher apps, Android version) read and
\* write no server map, so they are one step.
StartProbe(r) ==
    /\ NoMicrotask
    /\ r.pc = "probe"
    /\ \E outcome \in {"unavailable", "throws", "ok"} :
         CASE outcome = "unavailable" ->
                /\ out' = <<Msg(r.client, "error", "Device not available")>>
                /\ handlers' = Unpark(handlers, r)
                /\ UNCHANGED sessions
           [] outcome = "throws" ->
                /\ out' = <<>>
                /\ handlers' = Move(handlers, r, [r EXCEPT !.pc = "catch"])
                /\ UNCHANGED sessions
           [] outcome = "ok" ->
                \E scid \in SCIDS :
                  LET runOptions == RunOptions(settings[r.client], android)
                      streams == Streams(runOptions)
                  IN
                  /\ out' = <<Msg(r.client, "launcherAppsList", "")>>
                  /\ IF SetupRejects(scid, streams)
                     THEN /\ handlers' = Move(handlers, r,
                                 [r EXCEPT !.pc = "catch", !.scid = scid])
                          /\ UNCHANGED sessions
                     ELSE /\ handlers' = Move(handlers, r,
                                 [r EXCEPT !.pc = "setup", !.scid = scid])
                          /\ sessions' = sessions @@ (scid :> NewSession(r.client, runOptions))
    /\ UNCHANGED <<wsClients, clientSession, wsState>>
    /\ UNCHANGED <<cvars, xvars, pvars>>

\* handleStart after setupScrcpySession resolved: the client object the handler
\* looked up at entry gets the scid.
StartAttach(r) ==
    /\ r.pc = "attach"
    /\ clientSession' = [clientSession EXCEPT ![r.client] = r.scid]
    /\ out' = IF AudioNote(settings[r.client], android)
                THEN <<Msg(r.client, "status", "Audio disabled (Android < 11)")>>
                ELSE <<>>
    /\ handlers' = Unpark(handlers, r)
    /\ UNCHANGED <<wsClients, wsState, sessions>>
    /\ UNCHANGED <<cvars, xvars, pvars>>

\* The session the catch block of handleStart cleans up: the one in the
\* client's session field if there is one, else the handler's own scid if it is
\* in the sessions map.
CatchTarget(r) ==
    IF r.client \in wsClients /\ clientSession[r.client] # NULL
    THEN clientSession[r.client]
    ELSE IF r.scid # NULL /\ r.scid \in DOMAIN sessions THEN r.scid
    ELSE NULL

\* handleStart, catch block up to its await.
StartCatch(r) ==
    /\ r.pc = "catch"
    /\ out' = <<Msg(r.client, "error", "Setup failed")>>
    /\ LET t == CatchTarget(r)
       IN  IF t = NULL
           THEN /\ clientSession' = IF r.client \in wsClients
                                    THEN [clientSession EXCEPT ![r.client] = NULL]
                                    ELSE clientSession
                /\ handlers' = Unpark(handlers, r)
                /\ UNCHANGED sessions
           ELSE /\ sessions' = CleanupCall(sessions, t)
                /\ handlers' = Move(handlers, r,
                       [r EXCEPT !.pc = CleanupPc(sessions, t, "catchCleanup"),
                                 !.wscid = t,
                                 !.hadClient = r.client \in wsClients])
                /\ UNCHANGED clientSession
    /\ UNCHANGED <<wsClients, wsState>>
    /\ UNCHANGED <<cvars, xvars, pvars>>

\* handleStart, catch block after its await: clientData.session = null.
StartCatchEnd(r) ==
    /\ r.pc = "catchEnd"
    /\ clientSession' = IF r.hadClient
                        THEN [clientSession EXCEPT ![r.client] = NULL]
                        ELSE clientSession
    /\ out' = <<>>
    /\ handlers' = Unpark(handlers, r)
    /\ UNCHANGED <<wsClients, wsState, sessions>>
    /\ UNCHANGED <<cvars, xvars, pvars>>

\* Mutant of Disconnect: the branch for a client without a session sends
\* nothing.
Disconnect_Silent(c) ==
    /\ NoMicrotask
    /\ wsState[c] = "OPEN"
    /\ c \in wsClients
    /\ IF clientSession[c] # NULL
       THEN LET s == clientSession[c]
                told == IF s \in DOMAIN sessions
                        THEN [sessions EXCEPT ![s].stops = @ + 1]
                        ELSE sessions
                h == [Handler("disconnect", c, CleanupPc(sessions, s, "discCleanup"))
                        EXCEPT !.wscid = s]
            IN  /\ InFlight < MaxH
                /\ clientSession' = [clientSession EXCEPT ![c] = NULL]
                /\ out' = <<Msg(c, "status", "Streaming stopped")>>
                /\ sessions' = CleanupCall(told, s)
                /\ handlers' = Park(handlers, h)
       ELSE /\ out' = <<>>
            /\ UNCHANGED <<clientSession, sessions, handlers>>
    /\ UNCHANGED <<wsClients, wsState>>
    /\ UNCHANGED <<cvars, xvars, pvars>>

\* handleClientDisconnectCommand.
Disconnect(c) ==
    /\ NoMicrotask
    /\ wsState[c] = "OPEN"
    /\ c \in wsClients
    /\ IF clientSession[c] # NULL
       THEN LET s == clientSession[c]
                told == IF s \in DOMAIN sessions
                        THEN [sessions EXCEPT ![s].stops = @ + 1]
                        ELSE sessions
                h == [Handler("disconnect", c, CleanupPc(sessions, s, "discCleanup"))
                        EXCEPT !.wscid = s]
            IN  /\ InFlight < MaxH
                /\ clientSession' = [clientSession EXCEPT ![c] = NULL]
                /\ out' = <<Msg(c, "status", "Streaming stopped")>>
                /\ sessions' = CleanupCall(told, s)
                /\ handlers' = Park(handlers, h)
       ELSE /\ out' = <<Msg(c, "status", "No active stream to stop.")>>
            /\ UNCHANGED <<clientSession, sessions, handlers>>
    /\ UNCHANGED <<wsClients, wsState>>
    /\ UNCHANGED <<cvars, xvars, pvars>>

\* handleClientDisconnectCommand after its await: only a log line is left.
DisconnectEnd(r) ==
    /\ r.pc = "discEnd"
    /\ handlers' = Unpark(handlers, r)
    /\ out' = <<>>
    /\ UNCHANGED <<wsClients, clientSession, wsState, sessions>>
    /\ UNCHANGED <<cvars, xvars, pvars>>

\* ws.on("close"): clean up the session in the client's session field, then
\* drop the client from wsClients.
WsClose(c) ==
    /\ NoMicrotask
    /\ wsState[c] \in {"OPEN", "CLOSING"}
    /\ wsState' = [wsState EXCEPT ![c] = "CLOSED"]
    /\ IF c \in wsClients /\ clientSession[c] # NULL
       THEN LET s == clientSession[c]
                h == [Handler("close", c, CleanupPc(sessions, s, "closeCleanup"))
                        EXCEPT !.wscid = s]
            IN  /\ InFlight < MaxH
                /\ sessions' = CleanupCall(sessions, s)
                /\ handlers' = Park(handlers, h)
                /\ UNCHANGED wsClients
       ELSE /\ wsClients' = wsClients \ {c}
            /\ UNCHANGED <<sessions, handlers>>
    /\ out' = <<>>
    /\ UNCHANGED clientSession
    /\ UNCHANGED <<cvars, xvars, pvars>>

\* ws.on("close") after its await: wsClients.delete(clientId).
WsCloseEnd(r) ==
    /\ r.pc = "closeEnd"
    /\ wsClients' = wsClients \ {r.client}
    /\ handlers' = Unpark(handlers, r)
    /\ out' = <<>>
    /\ UNCHANGED <<clientSession, wsState, sessions>>
    /\ UNCHANGED <<cvars, xvars, pvars>>

\* ws.on("error"): clean up the session in the client's session field, then
\* terminate the socket if it is still open.
WsError(c) ==
    /\ NoMicrotask
    /\ wsState[c] = "OPEN"
    /\ c \in wsClients
    /\ IF clientSession[c] # NULL
       THEN LET s == clientSession[c]
                h == [Handler("error", c, CleanupPc(sessions, s, "errCleanup"))
                        EXCEPT !.wscid = s]
            IN  /\ InFlight < MaxH
                /\ sessions' = CleanupCall(sessions, s)
                /\ handlers' = Park(handlers, h)
                /\ \E st \in {"OPEN", "CLOSING"} :
                     wsState' = [wsState EXCEPT ![c] = st]
       ELSE /\ wsState' = [wsState EXCEPT ![c] = "CLOSING"]
            /\ UNCHANGED <<sessions, handlers>>
    /\ out' = <<>>
    /\ UNCHANGED <<wsClients, clientSession>>
    /\ UNCHANGED <<cvars, xvars, pvars>>

\* ws.on("error") after its await: terminate() a socket that is still open.
WsErrorEnd(r) ==
    /\ r.pc = "errEnd"
    /\ wsState' = IF wsState[r.client] = "OPEN"
                  THEN [wsState EXCEPT ![r.client] = "CLOSING"]
                  ELSE wsState
    /\ handlers' = Unpark(handlers, r)
    /\ out' = <<>>
    /\ UNCHANGED <<wsClients, clientSession, sessions>>
    /\ UNCHANGED <<cvars, xvars, pvars>>

Next ==
    \/ \E c \in Clients : Connect(c)
    \/ \E c \in Clients : RecvStart(c)
    \/ \E r \in Parked : StartProbe(r)
    \/ \E r \in Parked : SetupResolve(r)
    \/ \E r \in Parked : SetupFail(r)
    \/ \E r \in Parked : StartAttach(r)
    \/ \E r \in Parked : StartCatch(r)
    \/ \E r \in Parked : StartCatchEnd(r)
    \/ \E c \in Clients : Disconnect(c)
    \/ \E r \in Parked : DisconnectEnd(r)
    \/ \E c \in Clients : WsClose(c)
    \/ \E r \in Parked : WsCloseEnd(r)
    \/ \E c \in Clients : WsError(c)
    \/ \E r \in Parked : WsErrorEnd(r)
    \/ \E s \in SCIDS : CleanupEnd(s)
    \/ \E s \in SCIDS : SessionEnds(s)

Spec == Init /\ [][Next]_vars

\* ------------------------------------------------------------ claims, Spec
\* No handler is parked and no teardown is in flight.
Quiescent ==
    /\ handlers = EmptyBag
    /\ \A s \in DOMAIN sessions : sessions[s].state # "Draining"

\* C1: at most one session in the sessions map is owned by any one client, at
\* any time and under every interleaving of that client's messages.
C1_OneSessionPerClient == \A c \in Clients : Cardinality(OwnedBy(c)) <= 1

\* C2: the session field of every client in wsClients is null or the scid of a
\* session that is in the sessions map and is owned by that client.
C2_SessionFieldValid ==
    \A c \in wsClients :
        \/ clientSession[c] = NULL
        \/ /\ clientSession[c] \in DOMAIN sessions
           /\ sessions[clientSession[c]].clientId = c

\* C2 witness: a client is attached to a session while another session of the
\* same client is in the map, and a teardown of the attached one has begun.
C2_Witness ==
    \E c \in wsClients :
        /\ clientSession[c] # NULL
        /\ sessions[clientSession[c]].state = "Draining"
        /\ Cardinality(OwnedBy(c)) = 2

\* C3: once a client's WebSocket has closed and its handlers have run to
\* completion, no session in the sessions map is owned by a client that is no
\* longer in wsClients.
C3_NoOrphanAfterClose ==
    Quiescent => \A s \in DOMAIN sessions : sessions[s].clientId \in wsClients

\* C37: in every quiescent state every session in the sessions map is the
\* session field of exactly one client in wsClients, and that client is the
\* session's owner.
C37_EverySessionHeld ==
    Quiescent =>
      \A s \in DOMAIN sessions :
        {c \in wsClients : clientSession[c] = s} = {sessions[s].clientId}

\* C4: a disconnect command from a client without a session sends that client
\* exactly one status "No active stream to stop." and changes no map and starts
\* no cleanup.
C4_DisconnectNoSession ==
    [][\A c \in Clients :
         (Disconnect(c) /\ clientSession[c] = NULL) =>
            /\ out' = <<Msg(c, "status", "No active stream to stop.")>>
            /\ UNCHANGED <<wsClients, clientSession, wsState, sessions, handlers>>]_vars

\* C4 witness: the status has just been sent to a client that has no session
\* while another client's session is live.
C4_Witness ==
    \E c \in wsClients :
        /\ out = <<Msg(c, "status", "No active stream to stop.")>>
        /\ clientSession[c] = NULL
        /\ DOMAIN sessions # {}

\* C5: when a caller of cleanupSession(scid) continues, scid is not in the
\* sessions map; and when a disconnect command of a client that had a session
\* completes, that client's session field is null.
C5_CleanupPost ==
    \A r \in Parked :
        /\ (r.pc \in ReadyPcs /\ r.wscid # NULL) => r.wscid \notin DOMAIN sessions
        /\ r.pc = "discEnd" => clientSession[r.client] = NULL

\* C6: a session's owner is sent "Streaming stopped" at most once for that
\* session, however often cleanupSession is invoked for its scid.
C6_StoppedOnce ==
    [][\A s \in SCIDS :
         (/\ s \in DOMAIN sessions
          /\ s \notin DOMAIN sessions'
          /\ out' = <<Msg(sessions[s].clientId, "status", "Streaming stopped")>>)
         => sessions[s].stops = 0]_vars

\* ------------------------------------------------- gateway: JSON commands
\* At most MaxCmds commands are received in one behaviour.
MaxCmds == 2

\* adbCommand: a command type with a case in the switch of handleAdbCommand,
\* and one without.
CommandTypes == {"getDisplayList"}

UnknownCommandType == "frobnicate"

\* Keys of the actionHandlers object that the model sends commands to.
actionHandlers ==
    {"adbCommand", "volume", "getVolume", "navAction", "wifiToggle",
     "getWifiStatus", "getBatteryLevel", "launchApp"}

\* A name that is not a key of actionHandlers, and one that is not a key either
\* but is found on Object.prototype, so that actionHandlers[action] is truthy.
UnknownAction == "bogus"

InheritedAction == "constructor"

\* A parsed command.  deviceId
\* tells whether the message names a device; valid tells whether its argument
\* (volume value, navigation key, enable flag) passes the handler's test.
Command(c, a, t, id, d, v) ==
    [client |-> c, action |-> a, commandType |-> t, commandId |-> id,
     deviceId |-> d, valid |-> v]

\* The commands client c can send next.  Every one carries a commandId, and a
\* fresh one (adbClientService builds it from the clock and a random suffix).
Messages(c) ==
    LET id == Len(cmds) + 1
    IN  {Command(c, "adbCommand", t, id, d, TRUE) :
            t \in CommandTypes \cup {UnknownCommandType}, d \in BOOLEAN}
        \cup {Command(c, a, "", id, FALSE, v) :
            a \in {"volume", "navAction", "wifiToggle", "launchApp"}, v \in BOOLEAN}
        \cup {Command(c, a, "", id, FALSE, TRUE) :
            a \in {"getVolume", "getWifiStatus", "getBatteryLevel"}}
        \cup {Command(c, a, "", id, FALSE, TRUE) :
            a \in {UnknownAction, InheritedAction}}

\* A response as the client receives it; commandId is NULL when the JSON
\* object has no such key.  cmd is the index of the command whose handler
\* sent it (not part of the message).
Response(m, i, t, id, ok, err) ==
    [to |-> m.client, type |-> t, commandId |-> id, success |-> ok,
     error |-> err, cmd |-> i]

\* Mutant of AdbResponse: one fixed response type for every commandType.
AdbResponse_FixedType(m, i, ok, err) ==
    Response(m, i, "adbCommandResponse", m.commandId, ok, err)

\* The final ws.send of handleAdbCommand and the one of its deviceId check.
AdbResponse(m, i, ok, err) ==
    Response(m, i, m.commandType \o "Response", m.commandId, ok, err)

\* C.MESSAGE_TYPES.VOLUME_RESPONSE, NAV_RESPONSE, WIFI_RESPONSE.
ResponseType(a) ==
    CASE a = "volume" -> "volumeResponse"
      [] a = "navAction" -> "navResponse"
      [] a = "wifiToggle" -> "wifiResponse"
      [] a = "getVolume" -> "volumeInfo"
      [] a = "getWifiStatus" -> "wifiStatus"
      [] a = "getBatteryLevel" -> "batteryInfo"
      [] a = "launchApp" -> "launchAppResponse"

\* Mutant of PlainResponse: the commandId of the request is echoed.
PlainResponse_Echo(m, i, ok, err) ==
    Response(m, i, ResponseType(m.action), m.commandId, ok, err)

\* The ws.send calls of handleVolumeCommand, handleNavAction and
\* handleWifiToggleCommand: none of them has a commandId key.
PlainResponse(m, i, ok, err) ==
    Response(m, i, ResponseType(m.action), NULL, ok, err)

Send(r) ==
    /\ inbox' = Append(inbox, r)
    /\ out' = <<Msg(r.to, r.type, r.error)>>

\* ws.on("message") for a text frame: the client is in wsClients.
Receives(c, m) ==
    /\ NoMicrotask
    /\ wsState[c] = "OPEN"
    /\ c \in wsClients
    /\ Len(cmds) < MaxCmds
    /\ cmds' = Append(cmds, m)

\* The tests a handler makes before its first device call, in order; the
\* result is the error it answers with, "" when it goes on to the device.
AdbRefusal(m) ==
    IF ~m.deviceId THEN "Device ID missing"
    ELSE IF m.commandType \notin CommandTypes THEN "Unknown ADB commandType"
    ELSE ""

InvalidError(a) ==
    CASE a = "volume" -> "Invalid volume value"
      [] a = "navAction" -> "Invalid navigation key"
      [] a = "wifiToggle" -> "Invalid Wi-Fi toggle value"
      [] a = "launchApp" -> "Package name missing"

SessionRefusal(m) ==
    IF m.client \notin wsClients \/ clientSession[m.client] = NULL
    THEN "No active session"
    ELSE IF clientSession[m.client] \notin DOMAIN sessions THEN "No device found"
    ELSE IF ~m.valid THEN InvalidError(m.action)
    ELSE ""

\* Mutant of handleAdbCommand: the answer to a refused command is deferred to
\* a later turn of the event loop.
handleAdbCommand_Deferred(c) ==
    \E m \in Messages(c) :
      /\ Receives(c, m)
      /\ m.action = "adbCommand"
      /\ cmdPending' = cmdPending \cup {Len(cmds) + 1}
      /\ out' = <<>>
      /\ UNCHANGED inbox
      /\ UNCHANGED <<svars, pvars, xvars>>

\* handleAdbCommand up to its first await: a message without deviceId and a
\* commandType without a case are answered at once, the others call the device.
handleAdbCommand(c) ==
    \E m \in Messages(c) :
      /\ Receives(c, m)
      /\ m.action = "adbCommand"
      /\ IF AdbRefusal(m) # ""
         THEN /\ Send(AdbResponse(m, Len(cmds) + 1, FALSE, AdbRefusal(m)))
              /\ UNCHANGED cmdPending
         ELSE /\ cmdPending' = cmdPending \cup {Len(cmds) + 1}
              /\ out' = <<>>
              /\ UNCHANGED inbox
      /\ UNCHANGED <<svars, pvars, xvars>>

\* handleAdbCommand after the device call: the result of the adbService
\* function, or the failure built in the catch block, is sent in one message.
handleAdbCommandEnd(i) ==
    /\ NoMicrotask
    /\ i \in cmdPending
    /\ cmds[i].action = "adbCommand"
    /\ \E outcome \in {"ok", "fails", "throws"} :
         Send(AdbResponse(cmds[i], i, outcome = "ok",
                          IF outcome = "ok" THEN "" ELSE "device error"))
    /\ cmdPending' = cmdPending \ {i}
    /\ UNCHANGED <<svars, pvars, xvars, cmds>>

\* Mutant of SessionCommand: the session is not looked at before the device
\* call.
SessionCommand_Unchecked(c, a) ==
    \E m \in Messages(c) :
      /\ Receives(c, m)
      /\ m.action = a
      /\ IF ~m.valid
         THEN /\ Send(PlainResponse(m, Len(cmds) + 1, FALSE, InvalidError(m.action)))
              /\ UNCHANGED cmdPending
         ELSE /\ cmdPending' = cmdPending \cup {Len(cmds) + 1}
              /\ out' = <<>>
              /\ UNCHANGED inbox
      /\ UNCHANGED <<svars, pvars, xvars>>

\* handleVolumeCommand, handleNavAction and handleWifiToggleCommand up to
\* their first await.
SessionCommand(c, a) ==
    \E m \in Messages(c) :
      /\ Receives(c, m)
      /\ m.action = a
      /\ IF SessionRefusal(m) # ""
         THEN /\ Send(PlainResponse(m, Len(cmds) + 1, FALSE, SessionRefusal(m)))
              /\ UNCHANGED cmdPending
         ELSE /\ cmdPending' = cmdPending \cup {Len(cmds) + 1}
              /\ out' = <<>>
              /\ UNCHANGED inbox
      /\ UNCHANGED <<svars, pvars, xvars>>

\* Mutant of SessionCommandEnd: a failed device call also detaches the client
\* from its session.
SessionCommandEnd_Detach(i, a, errors) ==
    /\ NoMicrotask
    /\ i \in cmdPending
    /\ cmds[i].action = a
    /\ \E err \in {""} \cup errors :
         /\ Send(PlainResponse(cmds[i], i, err = "", err))
         /\ clientSession' = IF err = "" THEN clientSession
                              ELSE [clientSession EXCEPT ![cmds[i].client] = NULL]
    /\ cmdPending' = cmdPending \ {i}
    /\ UNCHANGED <<wsClients, wsState, sessions, handlers, pvars, xvars, cmds>>

\* The same handlers after the device call(s): the success message of the try
\* block or the failure message of one of its exits.
SessionCommandEnd(i, a, errors) ==
    /\ NoMicrotask
    /\ i \in cmdPending
    /\ cmds[i].action = a
    /\ \E err \in {""} \cup errors :
         Send(PlainResponse(cmds[i], i, err = "", err))
    /\ cmdPending' = cmdPending \ {i}
    /\ UNCHANGED <<svars, pvars, xvars, cmds>>

handleVolumeCommand(c) ==
    /\ SessionCommand(c, "volume")

handleVolumeCommandEnd(i) ==
    /\ SessionCommandEnd(i, "volume", {"device error"})

handleNavAction(c) ==
    /\ SessionCommand(c, "navAction")

handleNavActionEnd(i) ==
    /\ SessionCommandEnd(i, "navAction", {"device error"})

handleWifiToggleCommand(c) ==
    /\ SessionCommand(c, "wifiToggle")

\* The device calls and the polling of handleWifiToggleCommand touch no server
\* state, so they are one step from the first await to the answer.
handleWifiToggleCommandEnd(i) ==
    /\ SessionCommandEnd(i, "wifiToggle",
        {"Wi-Fi failed to enable", "Failed to connect to SSID", "Failed to toggle Wi-Fi"})

handleGetVolumeCommand(c) ==
    /\ SessionCommand(c, "getVolume")

\* getMediaVolumeInfo rejects with one of its own messages.
handleGetVolumeCommandEnd(i) ==
    /\ SessionCommandEnd(i, "getVolume", {"Failed to get volume."})

handleGetWifiStatusCommand(c) ==
    /\ SessionCommand(c, "getWifiStatus")

handleGetWifiStatusCommandEnd(i) ==
    /\ SessionCommandEnd(i, "getWifiStatus", {"Failed to get Wi-Fi status"})

handleGetBatteryLevelCommand(c) ==
    /\ SessionCommand(c, "getBatteryLevel")

handleGetBatteryLevelCommandEnd(i) ==
    /\ SessionCommandEnd(i, "getBatteryLevel", {"device error"})

handleLaunchApp(c) ==
    /\ SessionCommand(c, "launchApp")

handleLaunchAppEnd(i) ==
    /\ SessionCommandEnd(i, "launchApp", {"device error"})

\* ws.on("message"), an action without an own key in actionHandlers: an unknown
\* name is answered with an error; for a name found on Object.prototype the
\* inherited function is called as the handler and nothing is sent.
DispatchUnknown(c) ==
    \E m \in Messages(c) :
      /\ Receives(c, m)
      /\ m.action \notin actionHandlers
      /\ IF m.action = InheritedAction
         THEN /\ out' = <<>>
              /\ UNCHANGED inbox
         ELSE Send(Response(m, Len(cmds) + 1, "error", NULL, FALSE, "Unknown action"))
      /\ UNCHANGED <<svars, pvars, xvars, cmdPending>>

\* A text frame that JSON.parse rejects: nothing of it is read.
NotJson == Command(NULL, "", "", NULL, FALSE, FALSE)

\* ws.on("message"), catch block: JSON.parse threw and the sender is told.
ParseError(c) ==
    LET m == [NotJson EXCEPT !.client = c]
    IN  /\ Receives(c, m)
        /\ Send(Response(m, Len(cmds) + 1, "error", NULL, FALSE, "Invalid message format"))
        /\ UNCHANGED <<svars, pvars, xvars, cmdPending>>

\* Two connected clients; the first one has a running session attached.
InitAttached ==
    /\ wsClients = Clients
    /\ wsState = [c \in Clients |-> "OPEN"]
    /\ clientSession = [c \in Clients |-> IF c = 1 THEN 1 ELSE NULL]
    /\ sessions = (1 :> [NewSession(1, RunOptions(Requested("absent", TRUE, TRUE), 10))
                         EXCEPT !.state = "Running"])
    /\ handlers = EmptyBag
    /\ out = <<>>
    /\ cmds = <<>>
    /\ cmdPending = {}
    /\ inbox = <<>>
    /\ procs = {}
    /\ nproc = 0
    /\ activeShells = [c \in Clients |-> NULL]
    /\ harTraceProc = [c \in Clients |-> NULL]
    /\ diagnosticsProcesses = <<>>
    /\ harTimers = {}
    /\ sockets = <<>>
    /\ gws = NULL
    /\ pendingAdbCommands = {}
    /\ timers = {}
    /\ awaiting = {}
    /\ settled = <<>>
    /\ rx = <<>>
    /\ ctlSock = <<>>
    /\ workers = {}
    /\ toWorker = <<>>
    /\ fromWorker = <<>>

InitCmd ==
    /\ InitAttached
    /\ DefaultEnv

NextCmd ==
    \/ \E c \in Clients : handleAdbCommand(c)
    \/ \E i \in cmdPending : handleAdbCommandEnd(i)
    \/ \E c \in Clients : handleVolumeCommand(c)
    \/ \E i \in cmdPending : handleVolumeCommandEnd(i)
    \/ \E c \in Clients : handleNavAction(c)
    \/ \E i \in cmdPending : handleNavActionEnd(i)
    \/ \E c \in Clients : handleWifiToggleCommand(c)
    \/ \E i \in cmdPending : handleWifiToggleCommandEnd(i)
    \/ \E c \in Clients : handleGetVolumeCommand(c)
    \/ \E i \in cmdPending : handleGetVolumeCommandEnd(i)
    \/ \E c \in Clients : handleGetWifiStatusCommand(c)
    \/ \E i \in cmdPending : handleGetWifiStatusCommandEnd(i)
    \/ \E c \in Clients : handleGetBatteryLevelCommand(c)
    \/ \E i \in cmdPending : handleGetBatteryLevelCommandEnd(i)
    \/ \E c \in Clients : handleLaunchApp(c)
    \/ \E i \in cmdPending : handleLaunchAppEnd(i)
    \/ \E c \in Clients : DispatchUnknown(c)
    \/ \E c \in Clients : ParseError(c)

SpecCmd == InitCmd /\ [][NextCmd]_vars

\* --------------------------------------------------------- claims, SpecCmd
Handled(i) == i \notin cmdPending

\* The responses to the sender of command i that carry its commandId.
Echoes(i) ==
    {k \in 1..Len(inbox) : /\ inbox[k].to = cmds[i].client
                           /\ inbox[k].commandId = cmds[i].commandId}

\* The responses the handler of command i sent.
SentFor(i) == {k \in 1..Len(inbox) : inbox[k].cmd = i}

\* Command m is answered only after a device call.
Awaits(m) ==
    IF m.action = "adbCommand" THEN AdbRefusal(m) = ""
    ELSE IF m.action \in actionHandlers THEN SessionRefusal(m) = ""
    ELSE FALSE

C8_AdbResponse ==
    \A i \in 1..Len(cmds) :
      cmds[i].action = "adbCommand" =>
        IF Handled(i)
        THEN \E k \in SentFor(i) :
               /\ SentFor(i) = {k}
               /\ inbox[k].to = cmds[i].client
               /\ inbox[k].type = cmds[i].commandType \o "Response"
               /\ inbox[k].commandId = cmds[i].commandId
        ELSE SentFor(i) = {}

C8_Witness ==
    \E k1, k2 \in 1..Len(inbox) :
      /\ inbox[k1].type = "getDisplayListResponse"
      /\ inbox[k1].error = "device error"
      /\ inbox[k1].commandId = cmds[inbox[k1].cmd].commandId
      /\ inbox[k2].type = "frobnicateResponse"
      /\ inbox[k2].error = "Unknown ADB commandType"

\* C9 (as stated): the responses to one client are sent in the order in which
\* the client's commands arrived.
C9_SubmissionOrder ==
    \A k1, k2 \in 1..Len(inbox) :
      (k1 < k2 /\ inbox[k1].to = inbox[k2].to) => inbox[k1].cmd < inbox[k2].cmd

\* C9 (amended): responses are sent in the order in which the handlers finish.
\* A response overtakes an earlier command of the same client only if that
\* command was waiting for a device call; a command that is answered without a
\* device call is answered before every later command of the client.
C9_OnlyAwaitingOvertaken ==
    \A k1, k2 \in 1..Len(inbox) :
      (k1 < k2 /\ inbox[k1].to = inbox[k2].to /\ inbox[k1].cmd > inbox[k2].cmd)
        => Awaits(cmds[inbox[k2].cmd])

C9_Witness ==
    \E k1, k2 \in 1..Len(inbox) :
      /\ k1 < k2
      /\ inbox[k1].to = inbox[k2].to
      /\ inbox[k1].cmd > inbox[k2].cmd
      /\ cmds[inbox[k2].cmd].action = "wifiToggle"

\* C12: a text message that is not JSON or names an unknown action is answered
\* with exactly one error message to its sender, and its handling leaves
\* wsClients, the session fields, the sockets, the sessions map, the parked
\* handlers and the process maps as they are.
C12_UnknownAnswered ==
    [][\A c \in Clients :
         (DispatchUnknown(c) \/ ParseError(c)) =>
           /\ Len(inbox') = Len(inbox) + 1
           /\ inbox'[Len(inbox')].to = c
           /\ inbox'[Len(inbox')].type = "error"
           /\ UNCHANGED <<svars, pvars, cmdPending>>]_vars

\* ------------------------- gateway: interactive shell, HAR trace, diagnostics
\* At most MaxProcs shells and child processes are started in one behaviour.
MaxProcs == 2

\* Device serials, numbered; NULL stands for a message without deviceId.
Devices == {1}

\* A running process: the shell stream of handleStartAdbShell ("shell"), the
\* Python child of handleStartHarTrace ("har") or the logcat shell of
\* handleStartDiagnostics ("logcat").  owner is the client whose message
\* started it; cancelled tells that end() or kill() was called on it;
\* listened tells that the handler registered its end/close listener;
\* stopAsked tells that "STOP" was written to its stdin (HAR collector).
Proc(id, k, c, d) ==
    [id |-> id, kind |-> k, owner |-> c, dev |-> d, cancelled |-> FALSE,
     listened |-> TRUE, stopAsked |-> FALSE]

AskStop(ps, id) ==
    {IF q.id = id THEN [q EXCEPT !.stopAsked = TRUE] ELSE q : q \in ps}

\* The client is in wsClients and its socket delivers a text message.
CanReceive(c) ==
    /\ NoMicrotask
    /\ wsState[c] = "OPEN"
    /\ c \in wsClients

\* ws.send on the socket of client c.
SendTo(c, t, m) == IF wsState[c] = "OPEN" THEN <<Msg(c, t, m)>> ELSE <<>>

Cancel(ps, id) ==
    {IF q.id = id THEN [q EXCEPT !.cancelled = TRUE] ELSE q : q \in ps}

\* handleStartAdbShell up to its await of device.shell("sh").
handleStartAdbShell(c) ==
    /\ CanReceive(c)
    /\ \E hasDevice \in BOOLEAN :
         IF ~hasDevice
         THEN /\ out' = SendTo(c, "adbShellOutput", "[Error] Device ID missing.")
              /\ UNCHANGED handlers
         ELSE /\ InFlight < MaxH
              /\ handlers' = Park(handlers, Handler("startAdbShell", c, "shell"))
              /\ out' = <<>>
    /\ UNCHANGED <<wsClients, clientSession, wsState, sessions, cvars, xvars, pvars>>

\* handleStartAdbShell after the await: the shell is recorded under the
\* clientId, replacing whatever entry is there; or device.shell rejected.
handleStartAdbShellOpened(r) ==
    /\ NoMicrotask
    /\ r.pc = "shell"
    /\ \E opened \in BOOLEAN :
         IF opened
         THEN /\ nproc < MaxProcs
              /\ nproc' = nproc + 1
              /\ procs' = procs \cup {Proc(nproc + 1, "shell", r.client, NULL)}
              /\ activeShells' = [activeShells EXCEPT ![r.client] = nproc + 1]
              /\ out' = SendTo(r.client, "adbShellOutput", "[ADB Shell started.]")
         ELSE /\ out' = SendTo(r.client, "adbShellOutput", "[Error]")
              /\ UNCHANGED <<procs, nproc, activeShells>>
    /\ handlers' = Unpark(handlers, r)
    /\ UNCHANGED <<wsClients, clientSession, wsState, sessions, cvars, xvars,
                   harTraceProc, diagnosticsProcesses, harTimers>>

\* The adbShellInput messages that reach an active shell.
ShellInputs == {1}

MaxInputs == Cardinality(ShellInputs)

\* An entry of shellIO: the echo of input n sent to the client ("echo"), input
\* n written to shell sh ("write"), or an output line of shell sh caused by
\* input n, forwarded to the client ("line").
ShellEvent(e, sh, n) == [ev |-> e, shell |-> sh, input |-> n]

Echoed == {shellIO[i].input : i \in {j \in 1..Len(shellIO) : shellIO[j].ev = "echo"}}

\* The state outside the shells' input and output.
nonShellIO == <<svars, cvars, pvars, kvars, wvars, evars, dvars, ports>>

\* Mutant of handleAdbShellInput: the input is written before it is echoed.
handleAdbShellInput_WriteFirst(c) ==
    /\ CanReceive(c)
    /\ IF activeShells[c] = NULL
       THEN /\ out' = SendTo(c, "adbShellOutput", "[Error] No active shell session.")
            /\ UNCHANGED shellIO
       ELSE /\ Cardinality(Echoed) < MaxInputs
            /\ LET n == Cardinality(Echoed) + 1
               IN  /\ shellIO' = shellIO \o <<ShellEvent("write", activeShells[c], n),
                                              ShellEvent("echo", activeShells[c], n)>>
                   /\ out' = SendTo(c, "adbShellOutput", "$ input")
    /\ UNCHANGED nonShellIO

\* handleAdbShellInput: without an entry in activeShells an error output;
\* else the echo, and then the write to the client's shell, which may throw
\* (then an error output follows the echo).
handleAdbShellInput(c) ==
    /\ CanReceive(c)
    /\ IF activeShells[c] = NULL
       THEN /\ out' = SendTo(c, "adbShellOutput", "[Error] No active shell session.")
            /\ UNCHANGED shellIO
       ELSE /\ Cardinality(Echoed) < MaxInputs
            /\ LET n == Cardinality(Echoed) + 1
               IN  \E throws \in BOOLEAN :
                     IF throws
                     THEN /\ shellIO' = Append(shellIO, ShellEvent("echo", activeShells[c], n))
                          /\ out' = SendTo(c, "adbShellOutput", "$ input")
                                    \o SendTo(c, "adbShellOutput", "[Error]")
                     ELSE /\ shellIO' = shellIO \o <<ShellEvent("echo", activeShells[c], n),
                                                    ShellEvent("write", activeShells[c], n)>>
                          /\ out' = SendTo(c, "adbShellOutput", "$ input")
    /\ UNCHANGED nonShellIO

\* shellProc.on("data"): shell q prints a line in answer to an input that was
\* written to it; the line is forwarded to the client.
ShellData(q) ==
    /\ NoMicrotask
    /\ q.kind = "shell"
    /\ \E i \in 1..Len(shellIO) :
         /\ shellIO[i].ev = "write"
         /\ shellIO[i].shell = q.id
         /\ \A j \in 1..Len(shellIO) :
              ~(shellIO[j].ev = "line" /\ shellIO[j].input = shellIO[i].input)
         /\ shellIO' = Append(shellIO, ShellEvent("line", q.id, shellIO[i].input))
    /\ out' = SendTo(q.owner, "adbShellOutput", "line")
    /\ UNCHANGED nonShellIO

\* handleStopAdbShell: end the client's shell and drop its entry.
handleStopAdbShell(c) ==
    /\ CanReceive(c)
    /\ IF activeShells[c] # NULL
       THEN /\ procs' = Cancel(procs, activeShells[c])
            /\ activeShells' = [activeShells EXCEPT ![c] = NULL]
            /\ out' = SendTo(c, "adbShellClosed", "")
       ELSE /\ out' = <<>>
            /\ UNCHANGED <<procs, activeShells>>
    /\ UNCHANGED <<svars, cvars, xvars, nproc, harTraceProc, diagnosticsProcesses, harTimers>>

\* shellProc.on("end"): the stream of shell q ended (after end(), or because
\* the shell exited or the device went away); the entry of the clientId is
\* deleted.
ShellEnd(q) ==
    /\ NoMicrotask
    /\ q.kind = "shell"
    /\ procs' = procs \ {q}
    /\ activeShells' = [activeShells EXCEPT ![q.owner] = NULL]
    /\ out' = SendTo(q.owner, "adbShellClosed", "")
    /\ UNCHANGED <<svars, cvars, xvars, nproc, harTraceProc, diagnosticsProcesses, harTimers>>

\* handleStartHarTrace: a message without deviceId or url is refused; else the
\* collector is spawned and attached to the connection as ws._harTraceProc.
handleStartHarTrace(c) ==
    /\ CanReceive(c)
    /\ \E outcome \in {"missing", "nospawn", "spawned"} :
         IF outcome = "spawned"
         THEN /\ nproc < MaxProcs
              /\ nproc' = nproc + 1
              /\ procs' = procs \cup {Proc(nproc + 1, "har", c, NULL)}
              /\ harTraceProc' = [harTraceProc EXCEPT ![c] = nproc + 1]
              /\ out' = <<>>
         ELSE /\ out' = SendTo(c, "harTraceResponse",
                               IF outcome = "missing" THEN "Missing deviceId or url"
                               ELSE "Could not start Python process")
              /\ UNCHANGED <<procs, nproc, harTraceProc>>
    /\ UNCHANGED <<svars, cvars, xvars, activeShells, diagnosticsProcesses, harTimers>>

\* pyProc.on("close"): collector q exited; ws._harTraceProc is set to null and
\* the result is reported.
HarClose(q) ==
    /\ NoMicrotask
    /\ q.kind = "har"
    /\ procs' = procs \ {q}
    /\ harTraceProc' = [harTraceProc EXCEPT ![q.owner] = NULL]
    /\ out' = SendTo(q.owner, "harTraceResponse", "")
    /\ UNCHANGED <<svars, cvars, xvars, nproc, activeShells, diagnosticsProcesses, harTimers>>

\* handleStopHarTrace: STOP is written to the collector of the connection and
\* a timer is set; without a collector a status is sent.
handleStopHarTrace(c) ==
    /\ CanReceive(c)
    /\ IF harTraceProc[c] # NULL
       THEN /\ procs' = AskStop(procs, harTraceProc[c])
            /\ harTimers' = harTimers \cup {c}
            /\ out' = <<>>
       ELSE /\ out' = SendTo(c, "harTraceStatus", "No HAR trace running.")
            /\ UNCHANGED <<procs, harTimers>>
    /\ UNCHANGED <<svars, cvars, xvars, nproc, activeShells, harTraceProc,
                   diagnosticsProcesses>>

\* The timer of handleStopHarTrace: SIGTERM for the collector that is attached
\* to the connection now, if there is one that was not killed yet.
HarStopTimer(c) ==
    /\ NoMicrotask
    /\ c \in harTimers
    /\ harTimers' = harTimers \ {c}
    /\ procs' = IF harTraceProc[c] # NULL THEN Cancel(procs, harTraceProc[c]) ELSE procs
    /\ out' = <<>>
    /\ UNCHANGED <<svars, cvars, xvars, nproc, activeShells, harTraceProc, diagnosticsProcesses>>

\* handleStartDiagnostics up to the first await of its snapshot loop.
handleStartDiagnostics(c) ==
    /\ CanReceive(c)
    /\ \E d \in Devices \cup {NULL} :
         IF d = NULL
         THEN /\ out' = SendTo(c, "diagnosticsResponse", "Device ID missing")
              /\ UNCHANGED handlers
         ELSE IF d \in DOMAIN diagnosticsProcesses
         THEN /\ out' = SendTo(c, "diagnosticsResponse",
                               "Diagnostics already running for this device")
              /\ UNCHANGED handlers
         ELSE /\ InFlight < MaxH
              /\ handlers' = Park(handlers,
                   [Handler("startDiagnostics", c, "snapshots") EXCEPT !.dev = d])
              /\ out' = <<>>
    /\ UNCHANGED <<wsClients, clientSession, wsState, sessions, cvars, xvars, pvars>>

\* handleStartDiagnostics after the snapshots: device.shell("logcat ...")
\* starts the logcat shell.  When the returned object has the stdout of a
\* child process, the listeners are registered and the process is recorded
\* under the deviceId; when it is the promise of a stream (adbkit's
\* device.shell), reading stdout from it throws and the catch block answers.
handleStartDiagnosticsLogcat(r) ==
    /\ NoMicrotask
    /\ r.pc = "snapshots"
    /\ \E res \in {"throws", "process", "promise"} :
         IF res = "throws"
         THEN /\ out' = SendTo(r.client, "diagnosticsResponse", "error")
              /\ UNCHANGED <<procs, nproc, diagnosticsProcesses>>
         ELSE /\ nproc < MaxProcs
              /\ nproc' = nproc + 1
              /\ procs' = procs \cup
                   {[Proc(nproc + 1, "logcat", r.client, r.dev)
                       EXCEPT !.listened = (res = "process")]}
              /\ IF res = "process"
                 THEN /\ diagnosticsProcesses' =
                           [d \in DOMAIN diagnosticsProcesses \cup {r.dev} |->
                              IF d = r.dev THEN nproc + 1 ELSE diagnosticsProcesses[d]]
                      /\ out' = SendTo(r.client, "diagnosticsResponse", "Diagnostics started")
                 ELSE /\ out' = SendTo(r.client, "diagnosticsResponse", "error")
                      /\ UNCHANGED diagnosticsProcesses
    /\ handlers' = Unpark(handlers, r)
    /\ UNCHANGED <<wsClients, clientSession, wsState, sessions, cvars, xvars,
                   activeShells, harTraceProc, harTimers>>

\* logcatProc.on("close"): logcat process q exited; the entry of its deviceId
\* is deleted and the starter is told.
LogcatClose(q) ==
    /\ NoMicrotask
    /\ q.kind = "logcat"
    /\ procs' = procs \ {q}
    /\ IF q.listened
       THEN /\ diagnosticsProcesses' =
                 [d \in DOMAIN diagnosticsProcesses \ {q.dev} |-> diagnosticsProcesses[d]]
            /\ out' = SendTo(q.owner, "diagnosticsStopped", "")
       ELSE /\ out' = <<>>
            /\ UNCHANGED diagnosticsProcesses
    /\ UNCHANGED <<svars, cvars, xvars, nproc, activeShells, harTraceProc, harTimers>>

\* handleStopDiagnostics: kill the process recorded for the device and delete
\* the entry.
handleStopDiagnostics(c) ==
    /\ CanReceive(c)
    /\ \E d \in Devices \cup {NULL} :
         IF d = NULL
         THEN /\ out' = SendTo(c, "diagnosticsResponse", "Device ID missing")
              /\ UNCHANGED <<procs, diagnosticsProcesses>>
         ELSE IF d \in DOMAIN diagnosticsProcesses
         THEN /\ procs' = Cancel(procs, diagnosticsProcesses[d])
              /\ diagnosticsProcesses' =
                   [x \in DOMAIN diagnosticsProcesses \ {d} |-> diagnosticsProcesses[x]]
              /\ out' = SendTo(c, "diagnosticsResponse", "Diagnostics stopped")
         ELSE /\ out' = SendTo(c, "diagnosticsResponse",
                               "No diagnostics running for this device")
              /\ UNCHANGED <<procs, diagnosticsProcesses>>
    /\ UNCHANGED <<svars, cvars, xvars, nproc, activeShells, harTraceProc, harTimers>>

\* Connections open and close while shells, traces and diagnostics are
\* started and stopped; no client starts a stream.
NextProc ==
    \/ \E c \in Clients : Connect(c)
    \/ \E c \in Clients : WsClose(c)
    \/ \E c \in Clients : handleStartAdbShell(c)
    \/ \E r \in Parked : handleStartAdbShellOpened(r)
    \/ \E c \in Clients : handleAdbShellInput(c)
    \/ \E c \in Clients : handleStopAdbShell(c)
    \/ \E q \in procs : ShellEnd(q)
    \/ \E q \in procs : ShellData(q)
    \/ \E c \in Clients : handleStartHarTrace(c)
    \/ \E q \in procs : HarClose(q)
    \/ \E c \in Clients : handleStopHarTrace(c)
    \/ \E c \in Clients : HarStopTimer(c)
    \/ \E c \in Clients : handleStartDiagnostics(c)
    \/ \E r \in Parked : handleStartDiagnosticsLogcat(r)
    \/ \E q \in procs : LogcatClose(q)
    \/ \E c \in Clients : handleStopDiagnostics(c)

SpecProc == Init /\ [][NextProc]_vars

\* ---------------------------------------------------------- claims, SpecProc
\* The close handler of client c has run to its end and no handler invoked
\* for c is parked.
ClosedAndDone(c) ==
    /\ wsState[c] = "CLOSED"
    /\ c \notin wsClients
    /\ \A r \in Parked : r.client # c

\* C10: once the close handler of a client's WebSocket has finished,
\* activeShells has no entry for the client, and every shell, HAR collector
\* and logcat process the client started is gone or has been told to stop.
C10_CloseCancels ==
    \A c \in Clients :
      ClosedAndDone(c) =>
        /\ activeShells[c] = NULL
        /\ \A q \in procs : q.owner = c => q.cancelled

\* ------------------------------------- browser: pending adbCommand promises
\* At most MaxIssued calls of sendAdbCommandToServer and at most MaxSockets
\* WebSockets are made in one behaviour.
MaxIssued == 2

MaxSockets == 2

\* The state of the promise of a call: n counts the calls of its resolve or
\* reject, by tells what made the last one.
Settled(n, by) == [n |-> n, by |-> by]

\* resolve or reject is called for the commands in ids.
Settle(st, ids, by) ==
    [i \in DOMAIN st |-> IF i \in ids THEN Settled(st[i].n + 1, by) ELSE st[i]]

Connected == gws # NULL /\ sockets[gws] = "OPEN"

\* initializeWebSocket: nothing to do while globalState.ws is open; else a new
\* socket is created (it is taken to open at once).
initializeWebSocket ==
    /\ ~Connected
    /\ Len(sockets) < MaxSockets
    /\ sockets' = Append(sockets, "OPEN")
    /\ gws' = Len(sockets) + 1
    /\ UNCHANGED <<pendingAdbCommands, timers, awaiting, settled, nonClient>>

\* sendAdbCommandToServer: rejected at once without an open socket or a
\* selected device; else the entry is made under a fresh commandId and the
\* message is sent; a send that throws removes the entry and rejects, a send
\* that succeeds is followed by setTimeout.
sendAdbCommandToServer ==
    /\ Len(settled) < MaxIssued
    /\ LET id == Len(settled) + 1
       IN  \E hasDevice, throws \in BOOLEAN :
             IF ~Connected \/ ~hasDevice
             THEN /\ settled' = Append(settled, Settled(1, "unsent"))
                  /\ UNCHANGED <<pendingAdbCommands, timers, awaiting>>
             ELSE IF throws
             THEN /\ settled' = Append(settled, Settled(1, "senderror"))
                  /\ UNCHANGED <<pendingAdbCommands, timers, awaiting>>
             ELSE /\ settled' = Append(settled, Settled(0, ""))
                  /\ pendingAdbCommands' = pendingAdbCommands \cup {id}
                  /\ timers' = timers \cup {id}
                  /\ awaiting' = awaiting \cup {[id |-> id, sock |-> gws]}
    /\ UNCHANGED <<sockets, gws, nonClient>>

\* Mutant of OnMessage: the entry is not deleted after it was settled.
OnMessage_NoDelete(a) ==
    /\ sockets[a.sock] = "OPEN"
    /\ awaiting' = awaiting \ {a}
    /\ \E typeMatches \in BOOLEAN :
         IF a.id \in pendingAdbCommands /\ typeMatches
         THEN /\ settled' = Settle(settled, {a.id}, "response")
              /\ UNCHANGED pendingAdbCommands
         ELSE UNCHANGED <<settled, pendingAdbCommands>>
    /\ UNCHANGED <<sockets, gws, timers, nonClient>>

\* ws.onmessage for the answer to command a: when its commandId has an entry
\* and its type is the entry's commandType + "Response", the promise is
\* resolved or rejected and the entry deleted; else the message goes on to the
\* other branches.
OnMessage(a) ==
    /\ sockets[a.sock] = "OPEN"
    /\ awaiting' = awaiting \ {a}
    /\ \E typeMatches \in BOOLEAN :
         IF a.id \in pendingAdbCommands /\ typeMatches
         THEN /\ settled' = Settle(settled, {a.id}, "response")
              /\ pendingAdbCommands' = pendingAdbCommands \ {a.id}
         ELSE UNCHANGED <<settled, pendingAdbCommands>>
    /\ UNCHANGED <<sockets, gws, timers, nonClient>>

\* The 15 s timer of command id: an entry that is still there is rejected and
\* deleted.
OnTimeout(id) ==
    /\ id \in timers
    /\ timers' = timers \ {id}
    /\ IF id \in pendingAdbCommands
       THEN /\ settled' = Settle(settled, {id}, "timeout")
            /\ pendingAdbCommands' = pendingAdbCommands \ {id}
       ELSE UNCHANGED <<settled, pendingAdbCommands>>
    /\ UNCHANGED <<sockets, gws, awaiting, nonClient>>

\* ws.onclose of socket k: globalState.ws is set to null, every entry is
\* rejected and the map is cleared.
OnClose(k) ==
    /\ sockets[k] = "OPEN"
    /\ sockets' = [sockets EXCEPT ![k] = "CLOSED"]
    /\ gws' = NULL
    /\ settled' = Settle(settled, pendingAdbCommands, "closed")
    /\ pendingAdbCommands' = {}
    /\ awaiting' = {a \in awaiting : a.sock # k}
    /\ UNCHANGED <<timers, nonClient>>

\* ws.onerror of socket k: the same, while the socket itself is not closed yet.
OnError(k) ==
    /\ sockets[k] = "OPEN"
    /\ gws' = NULL
    /\ settled' = Settle(settled, pendingAdbCommands, "error")
    /\ pendingAdbCommands' = {}
    /\ UNCHANGED <<sockets, timers, awaiting, nonClient>>

NextClient ==
    \/ initializeWebSocket
    \/ sendAdbCommandToServer
    \/ \E a \in awaiting : OnMessage(a)
    \/ \E id \in timers : OnTimeout(id)
    \/ \E k \in DOMAIN sockets : OnClose(k)
    \/ \E k \in DOMAIN sockets : OnError(k)

SpecClient == Init /\ [][NextClient]_vars

\* A timer that was set fires.
SpecClientFair == SpecClient /\ \A id \in 1..MaxIssued : WF_vars(OnTimeout(id))

\* ------------------------------------------------------ claims, SpecClient
\* C11: every call of sendAdbCommandToServer is settled exactly once: at every
\* moment no promise has been resolved or rejected twice, a command has an
\* entry in pendingAdbCommands exactly while its promise is unsettled, and
\* every entry is removed eventually (by the answer, by the timer, or by the
\* close or error of the connection).
C11_SettledOnce ==
    /\ [](\A i \in DOMAIN settled :
            /\ settled[i].n <= 1
            /\ i \in pendingAdbCommands <=> settled[i].n = 0)
    /\ \A i \in 1..MaxIssued :
         (i \in pendingAdbCommands) ~> (i \notin pendingAdbCommands)

C11_Witness ==
    \E i, j \in DOMAIN settled :
      /\ settled[i] = Settled(1, "response")
      /\ settled[j] = Settled(1, "timeout")
      /\ pendingAdbCommands = {}

\* --------------------------------------- control path: gateway and worker
\* At most MaxFrames binary frames are received in one behaviour.
MaxFrames == 2

\* A binary frame: its sender, its length class (0: empty, 1: not empty), its
\* place in rx, which identifies it, and whether the gateway posted it to a
\* worker when it arrived.
Frame(c, len, id, fwd) == [client |-> c, len |-> len, id |-> id, fwd |-> fwd]

\* The message the gateway posts for frame f of client c with session s; kind
\* tells whether data is a buffer ("bytes") or something else ("other").
ControlData(s, c, f, kind) ==
    [type |-> "controlData", scid |-> s, clientId |-> c, frame |-> f.id,
     len |-> f.len, kind |-> kind]

\* The binary branch posts the frame: the client has a session, the session is
\* in the map with a control socket that is not destroyed, and the session has
\* a worker.
Forwards(c) ==
    /\ clientSession[c] # NULL
    /\ clientSession[c] \in DOMAIN sessions
    /\ clientSession[c] \in DOMAIN ctlSock
    /\ ctlSock[clientSession[c]] = "open"
    /\ clientSession[c] \in workers

\* Mutant of RecvBinary: the frame is posted without looking at the control
\* socket.
RecvBinary_AnySocket(c) ==
    /\ CanReceive(c)
    /\ Len(rx) < MaxFrames
    /\ \E len \in {0, 1} :
         LET s == clientSession[c]
             f == Frame(c, len, Len(rx) + 1,
                        s # NULL /\ s \in DOMAIN sessions /\ s \in workers)
         IN  /\ rx' = Append(rx, f)
             /\ IF s # NULL /\ s \in DOMAIN sessions /\ s \in workers
                THEN toWorker' = [toWorker EXCEPT ![s] =
                                    Append(@, ControlData(s, c, f, "bytes"))]
                ELSE UNCHANGED toWorker
    /\ out' = <<>>
    /\ UNCHANGED <<ctlSock, workers, fromWorker, nonCtl>>

\* Mutant of RecvBinary: the frame is posted to the worker of any session that
\* has one.
RecvBinary_AnyWorker(c) ==
    /\ CanReceive(c)
    /\ Len(rx) < MaxFrames
    /\ \E len \in {0, 1} :
         LET f == Frame(c, len, Len(rx) + 1, Forwards(c))
         IN  /\ rx' = Append(rx, f)
             /\ IF Forwards(c)
                THEN \E s \in workers :
                       toWorker' = [toWorker EXCEPT ![s] =
                                      Append(@, ControlData(s, c, f, "bytes"))]
                ELSE UNCHANGED toWorker
    /\ out' = <<>>
    /\ UNCHANGED <<ctlSock, workers, fromWorker, nonCtl>>

\* ws.on("message") for a binary frame.
RecvBinary(c) ==
    /\ CanReceive(c)
    /\ Len(rx) < MaxFrames
    /\ \E len \in {0, 1} :
         LET f == Frame(c, len, Len(rx) + 1, Forwards(c))
             s == clientSession[c]
         IN  /\ rx' = Append(rx, f)
             /\ IF Forwards(c)
                THEN toWorker' = [toWorker EXCEPT ![s] =
                                    Append(@, ControlData(s, c, f, "bytes"))]
                ELSE UNCHANGED toWorker
    /\ out' = <<>>
    /\ UNCHANGED <<ctlSock, workers, fromWorker, nonCtl>>

\* Mutant of WorkerReply: the length is not tested.
WorkerReply_NoLength(m) ==
    [type |-> IF m.kind = "bytes" THEN "writeToSocket" ELSE "error",
     scid |-> m.scid, clientId |-> m.clientId, frame |-> m.frame]

\* What the worker posts for message m: writeToSocket for a buffer that is not
\* empty, an error for anything else.
WorkerReply(m) ==
    [type |-> IF m.kind = "bytes" /\ m.len > 0 THEN "writeToSocket" ELSE "error",
     scid |-> m.scid, clientId |-> m.clientId, frame |-> m.frame]

\* Mutant of WorkerOnMessage: the newest message is read first.
WorkerOnMessage_Newest(s) ==
    /\ s \in workers
    /\ toWorker[s] # <<>>
    /\ fromWorker' = Append(fromWorker, WorkerReply(toWorker[s][Len(toWorker[s])]))
    /\ toWorker' = [toWorker EXCEPT ![s] = SubSeq(@, 1, Len(@) - 1)]
    /\ UNCHANGED <<rx, ctlSock, workers, out, nonCtl>>

\* parentPort.on("message") in the worker of session s, for the oldest unread
\* message.
WorkerOnMessage(s) ==
    /\ s \in workers
    /\ toWorker[s] # <<>>
    /\ fromWorker' = Append(fromWorker, WorkerReply(Head(toWorker[s])))
    /\ toWorker' = [toWorker EXCEPT ![s] = Tail(@)]
    /\ UNCHANGED <<rx, ctlSock, workers, out, nonCtl>>

\* The main thread posts a controlData message whose data is not a buffer, an
\* ArrayBuffer, a typed array or a serialized Buffer (once per behaviour).
PostOther(s) ==
    /\ s \in workers
    /\ \A m \in {toWorker[s][i] : i \in 1..Len(toWorker[s])} : m.kind # "other"
    /\ \A i \in 1..Len(fromWorker) : fromWorker[i].frame # NULL
    /\ toWorker' = [toWorker EXCEPT ![s] =
                      Append(@, ControlData(s, sessions[s].clientId, Frame(NULL, 1, NULL, FALSE), "other"))]
    /\ UNCHANGED <<rx, ctlSock, workers, fromWorker, out, nonCtl>>

\* The control socket of session s is destroyed (device side closed it).
ControlSocketDestroyed(s) ==
    /\ s \in DOMAIN ctlSock
    /\ ctlSock[s] = "open"
    /\ ctlSock' = [ctlSock EXCEPT ![s] = "destroyed"]
    /\ UNCHANGED <<rx, workers, toWorker, fromWorker, out, nonCtl>>

\* The worker of session s is stopped and removed from the workers map.
WorkerRemoved(s) ==
    /\ s \in workers
    /\ workers' = workers \ {s}
    /\ UNCHANGED <<rx, ctlSock, toWorker, fromWorker, out, nonCtl>>

\* Connected clients, each without a session or with a running session of its
\* own (client c owns scid c); a session has control enabled (an open control
\* socket and a worker) or disabled (neither).
InitCtl ==
    /\ wsClients = Clients
    /\ wsState = [c \in Clients |-> "OPEN"]
    /\ clientSession \in [Clients -> {NULL} \cup SCIDS]
    /\ \A c \in Clients : clientSession[c] \in {NULL, c}
    /\ sessions = [s \in {c \in Clients : clientSession[c] = c} |->
                     [NewSession(s, RunOptions(Requested("absent", TRUE, TRUE), 10))
                        EXCEPT !.state = "Running"]]
    /\ workers \in SUBSET DOMAIN sessions
    /\ ctlSock = [s \in DOMAIN sessions |-> IF s \in workers THEN "open" ELSE "none"]
    /\ toWorker = [s \in DOMAIN sessions |-> <<>>]
    /\ rx = <<>>
    /\ fromWorker = <<>>
    /\ DefaultEnv
    /\ handlers = EmptyBag
    /\ out = <<>>
    /\ cmds = <<>>
    /\ cmdPending = {}
    /\ inbox = <<>>
    /\ procs = {}
    /\ nproc = 0
    /\ activeShells = [c \in Clients |-> NULL]
    /\ harTraceProc = [c \in Clients |-> NULL]
    /\ diagnosticsProcesses = <<>>
    /\ harTimers = {}
    /\ sockets = <<>>
    /\ gws = NULL
    /\ pendingAdbCommands = {}
    /\ timers = {}
    /\ awaiting = {}
    /\ settled = <<>>

NextCtl ==
    \/ \E c \in Clients : RecvBinary(c)
    \/ \E s \in SCIDS : WorkerOnMessage(s)
    \/ \E s \in SCIDS : PostOther(s)
    \/ \E s \in SCIDS : ControlSocketDestroyed(s)
    \/ \E s \in SCIDS : WorkerRemoved(s)

SpecCtl == InitCtl /\ [][NextCtl]_vars

\* ------------------------------------------------ claims on the control path
\* Frame number i of rx was posted to a worker: it is in a worker's queue or
\* the worker has answered it.
Posted(i) ==
    \/ \E s \in DOMAIN toWorker : \E k \in 1..Len(toWorker[s]) : toWorker[s][k].frame = i
    \/ \E k \in 1..Len(fromWorker) : fromWorker[k].frame = i

\* C13: a binary frame from a client is posted to a control worker if and only
\* if the client has a session, that session is in the sessions map with a
\* control socket that is not destroyed, and the session has a worker; then it
\* is appended to the queue of that session's worker with the client's id; in
\* every other case no queue changes, nothing is sent and no state of the
\* gateway changes.
C13_FrameForwardedIff ==
    [][\A c \in Clients :
         RecvBinary(c) =>
           /\ (toWorker' # toWorker) <=> Forwards(c)
           /\ Forwards(c) =>
                LET s == clientSession[c]
                IN  /\ Len(toWorker'[s]) = Len(toWorker[s]) + 1
                    /\ toWorker'[s][Len(toWorker'[s])].clientId = c
                    /\ toWorker'[s][Len(toWorker'[s])].scid = s
                    /\ toWorker'[s][Len(toWorker'[s])].len = rx'[Len(rx')].len
                    /\ \A t \in DOMAIN toWorker \ {s} : toWorker'[t] = toWorker[t]
           /\ out' = <<>>
           /\ UNCHANGED <<svars, cvars, pvars, kvars, ctlSock, workers, fromWorker>>]_vars

\* C13 witness: of two frames of one client that has a session, the first was
\* posted and the second, which arrived after the control socket was destroyed,
\* was dropped; a frame of a client without a session was dropped, too.
C13_Witness ==
    /\ Len(rx) = 2
    /\ rx[1].client = rx[2].client
    /\ clientSession[rx[1].client] # NULL
    /\ Posted(1)
    /\ ~Posted(2)
    /\ ctlSock[clientSession[rx[1].client]] = "destroyed"

\* The frame numbers of a sequence of worker messages, in order.
FramesOf(q) == [k \in 1..Len(q) |-> q[k].frame]

\* The frames the worker of client c's session handed back for writing.
Writes(c) ==
    FramesOf(SelectSeq(fromWorker,
                       LAMBDA m : m.type = "writeToSocket" /\ m.clientId = c))

\* The non-empty frames of client c still in the queue of a worker.
Queued(c) ==
    IF clientSession[c] \in DOMAIN toWorker
    THEN FramesOf(SelectSeq(toWorker[clientSession[c]],
                            LAMBDA m : m.kind = "bytes" /\ m.len > 0 /\ m.clientId = c))
    ELSE <<>>

\* The non-empty frames of client c that were posted on arrival, in arrival
\* order.
Arrived(c) ==
    LET q == SelectSeq(rx, LAMBDA f : f.client = c /\ f.fwd /\ f.len > 0)
    IN  [k \in 1..Len(q) |-> q[k].id]

\* C14: for a client with a running session, the frames handed back for
\* writing, followed by the non-empty frames its worker has not read yet, are
\* exactly the non-empty frames the gateway posted for that client, in arrival
\* order: none is lost, duplicated or reordered.
C14_ArrivalOrder ==
    \A c \in Clients : Writes(c) \o Queued(c) = Arrived(c)

\* C14 witness: two non-empty frames of one client were both handed back for
\* writing, the first before the second.
C14_Witness ==
    \E c \in Clients :
      /\ Len(rx) = 2
      /\ Writes(c) = <<1, 2>>

\* C15: the worker answers a message with writeToSocket only if its data is a
\* buffer that is not empty, and with one error message otherwise; the answers
\* follow the order of the messages, so an error does not stop the worker from
\* answering the messages after it.
C15_EmptyNeverWritten ==
    /\ \A k \in 1..Len(fromWorker) :
         LET m == fromWorker[k]
         IN  IF m.frame # NULL /\ rx[m.frame].len > 0
             THEN m.type = "writeToSocket"
             ELSE m.type = "error"
    /\ \A s \in workers :
         toWorker[s] # <<>> => ENABLED WorkerOnMessage(s)

\* C15 witness: the worker answered an empty frame with an error and the
\* non-empty frame after it with writeToSocket.
C15_Witness ==
    /\ Len(fromWorker) = 2
    /\ fromWorker[1].type = "error"
    /\ fromWorker[1].frame = 1
    /\ rx[1].len = 0
    /\ fromWorker[2].type = "writeToSocket"
    /\ fromWorker[2].frame = 2
    /\ fromWorker[2].scid = fromWorker[1].scid

\* The frames handed back for writing to the control socket of session s.
WritesFor(s) ==
    FramesOf(SelectSeq(fromWorker,
                       LAMBDA m : m.type = "writeToSocket" /\ m.scid = s))

\* The non-empty frames still unread in the queue of session s's worker.
QueuedFor(s) ==
    FramesOf(SelectSeq(toWorker[s], LAMBDA m : m.kind = "bytes" /\ m.len > 0))

\* C34: every frame of a client that is in a worker's queue or was answered by
\* a worker carries the scid in that client's session field and sits in the
\* queue of that session's worker; and the frames written for a session,
\* followed by those its worker has not read yet, are the posted non-empty
\* frames of the client holding that session, whatever other clients sent.
C34_ControlIsolation ==
    /\ \A s \in DOMAIN toWorker : \A k \in 1..Len(toWorker[s]) :
         LET m == toWorker[s][k]
         IN  m.frame # NULL =>
               /\ m.clientId = rx[m.frame].client
               /\ clientSession[m.clientId] = s
               /\ m.scid = s
    /\ \A k \in 1..Len(fromWorker) :
         LET m == fromWorker[k]
         IN  m.frame # NULL =>
               /\ m.clientId = rx[m.frame].client
               /\ m.scid = clientSession[m.clientId]
    /\ \A c \in Clients :
         clientSession[c] \in DOMAIN toWorker =>
            WritesFor(clientSession[c]) \o QueuedFor(clientSession[c]) = Arrived(c)

\* C34 witness: two clients that each own a session sent one frame each, and
\* each frame was written for its sender's session.
C34_Witness ==
    /\ Len(rx) = 2
    /\ rx[1].client # rx[2].client
    /\ clientSession[rx[1].client] # clientSession[rx[2].client]
    /\ WritesFor(clientSession[rx[1].client]) = <<1>>
    /\ WritesFor(clientSession[rx[2].client]) = <<2>>

\* ------------------------------------------- start messages and their options
\* One connected client whose start messages carry any of the stream options,
\* and a device reporting any of the Android versions.
InitStart ==
    /\ wsClients = {1}
    /\ wsState = [c \in Clients |-> IF c = 1 THEN "OPEN" ELSE "NONE"]
    /\ clientSession = [c \in Clients |-> NULL]
    /\ sessions = <<>>
    /\ handlers = EmptyBag
    /\ out = <<>>
    /\ android \in AndroidVersions
    /\ settings \in [Clients -> StartOptions]
    /\ settings[2] = Requested("absent", TRUE, TRUE)
    /\ ports = <<>>
    /\ shellIO = <<>>
    /\ DefaultDevice
    /\ cmds = <<>>
    /\ cmdPending = {}
    /\ inbox = <<>>
    /\ procs = {}
    /\ nproc = 0
    /\ activeShells = [c \in Clients |-> NULL]
    /\ harTraceProc = [c \in Clients |-> NULL]
    /\ diagnosticsProcesses = <<>>
    /\ harTimers = {}
    /\ sockets = <<>>
    /\ gws = NULL
    /\ pendingAdbCommands = {}
    /\ timers = {}
    /\ awaiting = {}
    /\ settled = <<>>
    /\ rx = <<>>
    /\ ctlSock = <<>>
    /\ workers = {}
    /\ toWorker = <<>>
    /\ fromWorker = <<>>

NextStart ==
    \/ \E c \in Clients : RecvStart(c)
    \/ \E r \in Parked : StartProbe(r)
    \/ \E r \in Parked : SetupResolve(r)
    \/ \E r \in Parked : SetupFail(r)
    \/ \E r \in Parked : StartAttach(r)
    \/ \E r \in Parked : StartCatch(r)
    \/ \E r \in Parked : StartCatchEnd(r)
    \/ \E s \in SCIDS : CleanupEnd(s)
    \/ \E s \in SCIDS : SessionEnds(s)

SpecStart == InitStart /\ [][NextStart]_vars

\* --------------------------------------------- claims on the start options
\* Client c's start messages ask for no video and no control, and for no audio
\* or for audio on a device below Android 11.
NoStream(c) ==
    /\ settings[c].video \in {"bool:false", "str:false"}
    /\ ~settings[c].enableControl
    /\ ~settings[c].enableAudio \/ android < 11

AudioStatus(c) == Msg(c, "status", "Audio disabled (Android < 11)")

Sent(m) == \E i \in 1..Len(out) : out[i] = m

\* C19: setupScrcpySession called with options that enable none of video,
\* audio and control rejects and registers no session; so a start whose
\* effective options enable no stream (video false, control off, audio off or
\* forced off on Android < 11) goes to the catch block, which sends one error,
\* and neither a session nor a session field comes of it.
C19_NoStreamsNoSession ==
    [][\A r \in Parked :
         NoStream(r.client) =>
           /\ StartProbe(r) =>
                /\ sessions' = sessions
                /\ \/ out' = <<Msg(r.client, "error", "Device not available")>>
                   \/ \E q \in BagToSet(handlers') : q.client = r.client /\ q.pc = "catch"
           /\ StartCatch(r) =>
                /\ out' = <<Msg(r.client, "error", "Setup failed")>>
                /\ OwnedBy(r.client) = {}
                /\ clientSession'[r.client] = NULL
           /\ ~SetupResolve(r)
           /\ ~StartAttach(r)]_vars

\* C19 witness: on Android 10 a start that asked for audio only (video "false",
\* no control) has ended with "Setup failed" and without a session.
C19_Witness ==
    /\ android = 10
    /\ settings[1] = Requested("str:false", TRUE, FALSE)
    /\ out = <<Msg(1, "error", "Setup failed")>>
    /\ handlers = EmptyBag
    /\ sessions = <<>>
    /\ clientSession[1] = NULL

\* C20: the audio option passed to setupScrcpySession is "false" whenever the
\* device's Android version is below 11, whatever the client requested, and
\* the requested value otherwise; the status "Audio disabled (Android < 11)"
\* is sent in exactly the steps in which a start whose setup succeeded
\* continues, the version is below 11 and the client requested audio.
C20_AudioForcedOff ==
    /\ [](\A s \in DOMAIN sessions :
            sessions[s].options.audio =
              IF android < 11 THEN "false"
              ELSE Str(settings[sessions[s].clientId].enableAudio))
    /\ [][\A c \in Clients :
            (\E i \in 1..Len(out') : out'[i] = AudioStatus(c))
              <=> /\ android < 11
                  /\ settings[c].enableAudio
                  /\ \E r \in Parked : r.client = c /\ StartAttach(r)]_vars

\* C20 witness: on Android 10 a client that requested audio has a session
\* whose audio option is "false" and has just been sent the status.
C20_Witness ==
    /\ android = 10
    /\ settings[1].enableAudio
    /\ Sent(AudioStatus(1))
    /\ clientSession[1] \in DOMAIN sessions
    /\ sessions[clientSession[1]].options.audio = "false"

\* ------------------------------------------------ claims on scids and failure
\* Step in which handler r of handleStart calls setupScrcpySession with scid s
\* and the call gets as far as registering its session.
Registers(r, s) ==
    /\ StartProbe(r)
    /\ handlers' = Move(handlers, r, [r EXCEPT !.pc = "setup", !.scid = s])

C18_StartFailure ==
    [][\A r \in Parked :
         /\ (StartProbe(r) /\ handlers' = Unpark(handlers, r)) =>
              /\ out' = <<Msg(r.client, "error", "Device not available")>>
              /\ sessions' = sessions
         /\ StartCatch(r) =>
              /\ out' = <<Msg(r.client, "error", "Setup failed")>>
              /\ CatchTarget(r) # NULL =>
                   /\ CatchTarget(r) = r.scid
                   /\ sessions[r.scid].clientId = r.client
              /\ \A t \in DOMAIN sessions \ {r.scid} : sessions'[t] = sessions[t]
         /\ ((StartCatch(r) /\ handlers' = Unpark(handlers, r)) \/ StartCatchEnd(r)) =>
              /\ r.client \in wsClients => clientSession'[r.client] = NULL
              /\ r.scid # NULL =>
                   \/ r.scid \notin DOMAIN sessions'
                   \/ sessions'[r.scid].clientId # r.client]_vars

\* ------------------------------------------------------- local ports
\* At most MaxLive sessions are live at the same time.
MaxLive == 3

\* Scids drawn by the starts of the port model.
PortScids == 1..(MaxLive + 1)

\* C.SERVER_PORT_BASE (defined in constants.js; the properties below do not
\* depend on its value), and the number of ports handleStart cycles through.
SERVER_PORT_BASE == 27183
PortCycle == 1000

\* The port handleStart computes for a new session.
PreferredPort == SERVER_PORT_BASE + (Cardinality(DOMAIN sessions) % PortCycle)

InUse == {ports[s] : s \in DOMAIN ports}

\* Mutant of Probe: the computed port is taken as it is.
Probe_None(p, used) == p

\* Incremental probing: the first port from p on that no live session holds.
Probe(p, used) ==
    CHOOSE q \in p..(p + Cardinality(used)) :
      /\ q \notin used
      /\ \A x \in p..(q - 1) : x \in used

\* A start that succeeds: handleStart draws a scid and computes the port,
\* setupScrcpySession settles the port and registers the running session.
StartSession(c) ==
    /\ Cardinality(DOMAIN sessions) < MaxLive
    /\ \E scid \in PortScids :
         LET runOptions == RunOptions(settings[c], android)
         IN  /\ ~SetupRejects(scid, Streams(runOptions))
             /\ sessions' = sessions @@
                  (scid :> [NewSession(c, runOptions) EXCEPT !.state = "Running"])
             /\ ports' = ports @@ (scid :> Probe(PreferredPort, InUse))
    /\ out' = <<Msg(c, "status", "Streaming started")>>
    /\ UNCHANGED <<wsClients, clientSession, wsState, handlers>>
    /\ UNCHANGED <<cvars, pvars, kvars, wvars, evars, dvars, shellIO>>

\* A stop: cleanupSession deletes the session and frees its port.
StopSession(s) ==
    /\ s \in DOMAIN sessions
    /\ sessions' = [x \in DOMAIN sessions \ {s} |-> sessions[x]]
    /\ ports' = [x \in DOMAIN ports \ {s} |-> ports[x]]
    /\ out' = <<Msg(sessions[s].clientId, "status", "Streaming stopped")>>
    /\ UNCHANGED <<wsClients, clientSession, wsState, handlers>>
    /\ UNCHANGED <<cvars, pvars, kvars, wvars, evars, dvars, shellIO>>

NextPort ==
    \/ \E c \in Clients : StartSession(c)
    \/ \E s \in PortScids : StopSession(s)

SpecPort == Init /\ [][NextPort]_vars

LogcatsOf(d) ==
    {q \in procs : q.kind = "logcat" /\ q.dev = d /\ q.listened /\ ~q.cancelled}

\* C21: at most one diagnostics (logcat) process runs per device at any time,
\* also when two startDiagnostics requests for the device are handled
\* concurrently.
C21_OneLogcatPerDevice ==
    \A d \in Devices : Cardinality(LogcatsOf(d)) <= 1

\* C22: every shell process that was opened for a client and is not the one
\* recorded in activeShells for the client has been ended; so at most one
\* shell per client is live.
C22_OneShellPerClient ==
    \A q \in procs :
      q.kind = "shell" => q.cancelled \/ activeShells[q.owner] = q.id

\* C23: every HAR collector spawned for a connection that is still running
\* and was not killed is the one referenced by the connection's _harTraceProc;
\* so at most one collector per connection is live.
C23_OneHarPerConnection ==
    \A q \in procs :
      q.kind = "har" => q.cancelled \/ harTraceProc[q.owner] = q.id

\* The logcat processes started for device d that run: not killed and not
\* exited.
RunningLogcats(d) ==
    {q \in procs : q.kind = "logcat" /\ q.dev = d /\ ~q.cancelled}

\* C35: diagnosticsProcesses has an entry for a device exactly when a logcat
\* process started for the device is running, and the entry is that process;
\* also when the close event of a stopped process arrives after a new one was
\* started for the device.
C35_EntryIffRunning ==
    /\ [](\A d \in Devices :
            IF d \in DOMAIN diagnosticsProcesses
            THEN \E q \in RunningLogcats(d) :
                   /\ q.id = diagnosticsProcesses[d]
                   /\ RunningLogcats(d) = {q}
            ELSE RunningLogcats(d) = {})
    /\ [][\A q \in procs :
            (LogcatClose(q) /\ q.cancelled) =>
               diagnosticsProcesses' = diagnosticsProcesses]_vars

\* C36: every shell produces one adbShellClosed message: the end event of a
\* shell that stopAdbShell has ended (and answered) sends none, the end event
\* of a shell that ends by itself sends one; and the end event of a shell
\* that is not the client's entry in activeShells leaves the entry alone.
C36_ShellClosedOnce ==
    [][\A q \in procs :
         (q.kind = "shell" /\ ShellEnd(q)) =>
            /\ out' = IF q.cancelled
                      THEN <<>>
                      ELSE SendTo(q.owner, "adbShellClosed", "")
            /\ activeShells[q.owner] # q.id => activeShells' = activeShells]_vars

\* ------------------------------------------------------ interactive shells
\* Clients connect, open shells, type into them and stop them.
NextShell ==
    \/ \E c \in Clients : Connect(c)
    \/ \E c \in Clients : handleStartAdbShell(c)
    \/ \E r \in Parked : handleStartAdbShellOpened(r)
    \/ \E c \in Clients : handleAdbShellInput(c)
    \/ \E c \in Clients : handleStopAdbShell(c)
    \/ \E q \in procs : ShellEnd(q)
    \/ \E q \in procs : ShellData(q)

SpecShell == Init /\ [][NextShell]_vars

\* C24: for an active shell the echo of an input is sent first and the input
\* is written to the shell right after it, so the echo precedes every output
\* line the input causes; without an active shell nothing is written and one
\* error output is sent; stopAdbShell on an active shell ends the shell,
\* removes the activeShells entry and sends adbShellClosed.
C24_EchoBeforeWrite ==
    /\ [](\A i \in 1..Len(shellIO) :
            /\ shellIO[i].ev = "write" =>
                 /\ i > 1
                 /\ shellIO[i - 1] = [shellIO[i] EXCEPT !.ev = "echo"]
            /\ shellIO[i].ev = "line" =>
                 \E j \in 1..(i - 1) :
                   /\ shellIO[j].ev = "echo"
                   /\ shellIO[j].input = shellIO[i].input)
    /\ [][\A c \in Clients :
            /\ handleAdbShellInput(c) =>
                 IF activeShells[c] = NULL
                 THEN /\ shellIO' = shellIO
                      /\ out' = <<Msg(c, "adbShellOutput", "[Error] No active shell session.")>>
                 ELSE /\ out'[1] = Msg(c, "adbShellOutput", "$ input")
                      /\ shellIO'[Len(shellIO) + 1] =
                           ShellEvent("echo", activeShells[c], Cardinality(Echoed) + 1)
            /\ (handleStopAdbShell(c) /\ activeShells[c] # NULL) =>
                 /\ activeShells'[c] = NULL
                 /\ \E q \in procs' : q.id = activeShells[c] /\ q.cancelled
                 /\ out' = <<Msg(c, "adbShellClosed", "")>>]_vars

\* C24 witness: an input was echoed, written and answered by the shell, and
\* the shell has then been stopped.
C24_Witness ==
    /\ Len(shellIO) = 3
    /\ shellIO[1].ev = "echo"
    /\ shellIO[2].ev = "write"
    /\ shellIO[3].ev = "line"
    /\ activeShells[1] = NULL
    /\ \E q \in procs : q.id = shellIO[2].shell /\ q.owner = 1 /\ q.cancelled
    /\ out = <<Msg(1, "adbShellClosed", "")>>

\* C28: the delayed SIGTERM of stopHarTrace goes only to the collector that
\* was asked to stop, never to a collector started after the stop; and
\* stopHarTrace on a connection without a collector sends one harTraceStatus
\* "No HAR trace running." and changes nothing.
C28_SigtermToAskedOnly ==
    [][\A c \in Clients :
         /\ HarStopTimer(c) =>
              \A q \in procs' :
                (q.cancelled /\ [q EXCEPT !.cancelled = FALSE] \in procs) => q.stopAsked
         /\ (handleStopHarTrace(c) /\ harTraceProc[c] = NULL) =>
              /\ out' = <<Msg(c, "harTraceStatus", "No HAR trace running.")>>
              /\ UNCHANGED <<procs, harTraceProc, harTimers>>]_vars

\* --------------------------------------------------- claims, SpecCmd (frame)
\* The responses that report a failure.
Failures == {k \in 1..Len(inbox) : ~inbox[k].success}

\* C25: a failure of a device command (adbCommand, volume, getVolume,
\* navAction, wifiToggle, getWifiStatus, getBatteryLevel, launchApp) is
\* reported in one message, the response of that command to its sender, with
\* success false; the step that reports it leaves the client's session field,
\* the wsClients entries and the sessions map as they were, and the stream of
\* the client keeps running.
C25_FailureLeavesSession ==
    /\ [](\A k \in Failures :
            /\ SentFor(inbox[k].cmd) = {k}
            /\ inbox[k].to = cmds[inbox[k].cmd].client)
    /\ [](/\ clientSession[1] = 1
          /\ 1 \in DOMAIN sessions
          /\ sessions[1].state = "Running")
    /\ [][(Len(inbox') > Len(inbox) /\ ~inbox'[Len(inbox')].success)
            => /\ UNCHANGED <<wsClients, clientSession, sessions>>
               /\ Len(inbox') = Len(inbox) + 1
               /\ out' = <<Msg(inbox'[Len(inbox')].to, inbox'[Len(inbox')].type,
                               inbox'[Len(inbox')].error)>>]_vars

\* A volume command and an adbCommand of client 1 both failed at the device,
\* and the client is still attached to its running session.
C25_Witness ==
    /\ \E k1, k2 \in Failures :
         /\ cmds[inbox[k1].cmd].action = "volume"
         /\ inbox[k1].error = "device error"
         /\ cmds[inbox[k2].cmd].action = "adbCommand"
         /\ inbox[k2].error = "device error"
         /\ inbox[k1].to = 1 /\ inbox[k2].to = 1
    /\ clientSession[1] = 1
    /\ sessions[1].state = "Running"

\* The commands that act on the device of the sender's session.
SessionActions ==
    {"volume", "getVolume", "navAction", "wifiToggle", "getWifiStatus",
     "getBatteryLevel", "launchApp"}

\* Client c has no session, or its session is not in the sessions map.
Sessionless(c) ==
    \/ clientSession[c] = NULL
    \/ clientSession[c] \notin DOMAIN sessions

Limb == 2 ^ 18

Top == 2 ^ 17

Zero == [hi |-> 0, mid |-> 0, lo |-> 0, scale |-> 0]

\* The number of binary digits of n.
BitLength(n) == CHOOSE k \in 0..30 : n < 2 ^ k /\ (k = 0 \/ n >= 2 ^ (k - 1))

\* The significand plus one unit in its last place.
Up(x) ==
    IF x.lo + 1 < Limb THEN [x EXCEPT !.lo = x.lo + 1]
    ELSE IF x.mid + 1 < Limb THEN [x EXCEPT !.lo = 0, !.mid = x.mid + 1]
    ELSE [x EXCEPT !.lo = 0, !.mid = 0, !.hi = x.hi + 1]

\* The double nearest to the integer n, 0 <= n < 2^17: n itself.
FromInt(n) ==
    IF n = 0 THEN Zero
    ELSE LET s == 17 - BitLength(n)
         IN  [hi |-> n * 2 ^ s, mid |-> 0, lo |-> 0, scale |-> 36 + s]

\* a / b for integers 0 <= a <= b < 2^12: long division, 17 + 18 + 18 bits
\* from the first 1 of the quotient on, then rounding by the remainder.
Quotient(a, b) ==
    IF a % b = 0 THEN FromInt(a \div b)
    ELSE LET z == CHOOSE k \in 1..12 : a * 2 ^ k >= b /\ a * 2 ^ (k - 1) < b
             t2 == a * 2 ^ (z + 16)
             t1 == (t2 % b) * Limb
             t0 == (t1 % b) * Limb
             left == t0 % b
             x == [hi |-> t2 \div b, mid |-> t1 \div b, lo |-> t0 \div b,
                   scale |-> z + 52]
             up == \/ 2 * left > b
                   \/ 2 * left = b /\ x.lo % 2 = 1
         IN  IF up THEN Up(x) ELSE x

\* x * k for a double x and an integer 1 <= k < 2^9: the exact product, cut
\* to 53 significant bits and rounded by the bits cut off.
Times(x, k) ==
    LET p0 == x.lo * k
        p1 == x.mid * k + p0 \div Limb
        p2 == x.hi * k + p1 \div Limb
        lo == p0 % Limb
        mid == p1 % Limb
        cut == IF BitLength(p2) > 17 THEN BitLength(p2) - 17 ELSE 0
        c == 2 ^ cut
        off == lo % c
        y == [hi |-> p2 \div c,
              mid |-> mid \div c + (p2 % c) * (Limb \div c),
              lo |-> lo \div c + (mid % c) * (Limb \div c),
              scale |-> x.scale - cut]
        up == \/ 2 * off > c
              \/ 2 * off = c /\ y.lo % 2 = 1
    IN  IF up THEN Up(y) ELSE y

\* Bit i of the significand, bit 0 being the last.
BitAt(x, i) ==
    IF i >= 36 THEN (x.hi \div 2 ^ (i - 36)) % 2
    ELSE IF i >= 18 THEN (x.mid \div 2 ^ (i - 18)) % 2
    ELSE (x.lo \div 2 ^ i) % 2

\* Math.round(x) for a double 0 <= x < 2^17: the nearest integer, the upper
\* one of two that are equally near.
MathRound(x) ==
    IF x = Zero THEN 0
    ELSE x.hi \div 2 ^ (x.scale - 36) + BitAt(x, x.scale - 1)

\* ------------------------------------------------------------ media volume
\* The device's volume range goes up to at most MaxVolume.
MaxVolume == 25

VolumeValues ==
    {Value(TRUE, n, rest) : n \in -1..101, rest \in BOOLEAN}
    \cup {Value(FALSE, 0, TRUE)}

\* parseInt(message.value, 10): the leading integer, whatever follows it.
ParseInt(v) == [nan |-> ~v.lead, n |-> v.n]

\* The volume index setMediaVolume asks the device for.
TargetVolume(percentage, max) == MathRound(Times(Quotient(percentage, 100), max))

\* A shell command sent to the device.
AdbCall(cmd, arg) == [cmd |-> cmd, arg |-> arg]

VolumeSet(n) ==
    AdbCall(IF android <= 10 THEN "media volume --set"
            ELSE "cmd media_session volume --set --stream 3", n)

VolumeGet ==
    AdbCall(IF android <= 10 THEN "media volume --get"
            ELSE "cmd media_session volume --get --stream 3", 0)

\* A volumeResponse: success with requestedValue, or failure with the value of
\* the message and the error.
VolumeResponse(c, ok, n, err) ==
    [to |-> c, type |-> "volumeResponse", message |-> err, success |-> ok,
     value |-> n]

\* The outcome of a step for the device and the cache.
Outcome(err, calls, cache, volume) ==
    [error |-> err, calls |-> calls, cache |-> cache, volume |-> volume]

\* getMediaVolumeInfo as setMediaVolume calls it when session.maxVolume is not
\* set (session.androidVersion is: handleStart stores it): the query fails, or
\* the range read from the device is stored and then tested.
getMediaVolumeInfo(fails) ==
    IF fails
    THEN Outcome("Failed to get volume.", <<VolumeGet>>, maxVolume, devVolume)
    ELSE Outcome(IF devRange < 1 THEN "Invalid volume info" ELSE "",
                 <<VolumeGet>>, devRange, devVolume)

\* Mutant of setMediaVolume: the percentage itself is sent to the device.
setMediaVolume_Raw(percentage, getFails, setFails) ==
    LET info == IF maxVolume # 0 THEN Outcome("", <<>>, maxVolume, devVolume)
                ELSE getMediaVolumeInfo(getFails)
    IN  IF info.error # "" THEN info
        ELSE IF setFails
        THEN Outcome("device error", Append(info.calls, VolumeSet(percentage)),
                     info.cache, devVolume)
        ELSE Outcome("", Append(info.calls, VolumeSet(percentage)),
                     info.cache, percentage)

\* setMediaVolume: the cached maximum or the one just read, the target, and
\* the set command, which the device may fail.
setMediaVolume(percentage, getFails, setFails) ==
    LET info == IF maxVolume # 0 THEN Outcome("", <<>>, maxVolume, devVolume)
                ELSE getMediaVolumeInfo(getFails)
        targetVolume == TargetVolume(percentage, info.cache)
    IN  IF info.error # "" THEN info
        ELSE IF setFails
        THEN Outcome("device error", Append(info.calls, VolumeSet(targetVolume)),
                     info.cache, devVolume)
        ELSE Outcome("", Append(info.calls, VolumeSet(targetVolume)),
                     info.cache, targetVolume)

\* handleVolumeCommand from the message to its answer.  The device calls in
\* between touch the device and the cache only.
VolumeRequest(c) ==
    LET v == volumeValue
        value == ParseInt(v)
        refusal ==
            IF c \notin wsClients \/ clientSession[c] = NULL THEN "No active session"
            ELSE IF clientSession[c] \notin DOMAIN sessions THEN "No device found"
            ELSE IF value.nan \/ value.n < 0 \/ value.n > 100
            THEN "Invalid volume value"
            ELSE ""
    IN  /\ NoMicrotask
        /\ wsState[c] = "OPEN"
        /\ IF refusal # ""
           THEN /\ out' = <<VolumeResponse(c, FALSE, v.n, refusal)>>
                /\ adbCalls' = <<>>
                /\ UNCHANGED <<maxVolume, devVolume>>
           ELSE \E getFails, setFails \in BOOLEAN :
                  LET o == setMediaVolume(value.n, getFails, setFails)
                  IN  /\ out' = <<VolumeResponse(c, o.error = "", value.n, o.error)>>
                      /\ adbCalls' = o.calls
                      /\ maxVolume' = o.cache
                      /\ devVolume' = o.volume
        /\ UNCHANGED <<svars, cvars, pvars, kvars, wvars, evars, ports, shellIO,
                       devRange, rvars, tvars>>

\* Client 1 streams from a device whose volume range the gateway has not read
\* yet.
InitVolume ==
    /\ InitAttached
    /\ android \in AndroidVersions
    /\ settings = [c \in Clients |-> Requested("absent", TRUE, TRUE)]
    /\ ports = <<>>
    /\ shellIO = <<>>
    /\ maxVolume = 0
    /\ devVolume = 0
    /\ devRange \in 0..MaxVolume
    /\ adbCalls = <<>>
    /\ volumeValue \in VolumeValues
    /\ userRotation = 0
    /\ accelRotation = 1
    /\ rotationStates = Absent
    /\ adbCmds = {}
    /\ nadb = 0
    /\ rotBefore = Absent
    /\ undisturbed = TRUE
    /\ wifiCmds = {}
    /\ wifiLog = <<>>
    /\ NoStreaming

NextVolume ==
    \E c \in Clients : VolumeRequest(c)

SpecVolume == InitVolume /\ [][NextVolume]_vars

\* ------------------------------------------------------ claims, SpecVolume
\* a / b rounded to the nearest integer, halves up, in exact arithmetic.
HalfUp(a, b) == (2 * a + b) \div (2 * b)

\* The message value is not a number or lies outside 0..100.
InvalidValue == ~volumeValue.lead \/ volumeValue.n < 0 \/ volumeValue.n > 100

\* The volume responses of the last step.
VolumeAnswers == {k \in DOMAIN out : out[k].type = "volumeResponse"}

\* What holds of a volume command that was answered with success, whatever
\* the rounding: the maximum is cached and at least 1, the last device command
\* set the volume the device now has, which lies in 0..maxVolume, is 0 for 0
\* and maxVolume for 100.
SetWithinRange(r) ==
    /\ maxVolume >= 1
    /\ adbCalls # <<>>
    /\ adbCalls[Len(adbCalls)] = VolumeSet(devVolume)
    /\ devVolume \in 0..maxVolume
    /\ r.value = 0 => devVolume = 0
    /\ r.value = 100 => devVolume = maxVolume

\* An invalid value is answered with a failure and no device command.
InvalidRefused(r) == InvalidValue => ~r.success /\ adbCalls = <<>>

\* C26 (as stated): a successful volume command with percentage p has set the
\* device volume to p * maxVolume / 100 rounded to the nearest integer, halves
\* up, which lies in 0..maxVolume, is 0 for p = 0 and maxVolume for p = 100; a
\* value outside 0..100 or not a number is answered with a failure and issues
\* no device command.
C26_RoundedShare ==
    \A k \in VolumeAnswers :
      /\ out[k].success =>
           /\ SetWithinRange(out[k])
           /\ devVolume = HalfUp(out[k].value * maxVolume, 100)
      /\ InvalidRefused(out[k])

\* C26 (amended): the volume set is Math.round((p / 100) * maxVolume) in
\* double arithmetic.  It is an integer nearest to p * maxVolume / 100, in
\* 0..maxVolume, 0 for p = 0 and maxVolume for p = 100; where p * maxVolume /
\* 100 lies exactly between two integers it may be the lower one (58 of 25
\* gives 14), otherwise it is the half-up rounding.  p is the integer the
\* value starts with; invalid values are refused without a device command.
C26_NearestStep ==
    \A k \in VolumeAnswers :
      /\ out[k].success =>
           LET exact == out[k].value * maxVolume
           IN  /\ SetWithinRange(out[k])
               /\ 100 * devVolume - exact \in -50..50
               /\ \/ devVolume = HalfUp(exact, 100)
                  \/ exact % 100 = 50 /\ devVolume = HalfUp(exact, 100) - 1
      /\ InvalidRefused(out[k])

\* 58 percent of a range of 25 was set as 14.
C26_Witness ==
    /\ out # <<>>
    /\ out[1] = VolumeResponse(1, TRUE, 58, "")
    /\ maxVolume = 25
    /\ devVolume = 14
    /\ adbCalls = <<VolumeSet(14)>>

\* ---------------------------------------------------------- screen rotation
\* At most MaxAdb adbRotateScreen and cleanupAdb commands are received.
MaxAdb == 3

CleanupModes == {"native_taskbar", "overlay"}

nonRotation == <<svars, cvars, pvars, kvars, wvars, evars, ports, shellIO,
                 maxVolume, devVolume, devRange, adbCalls, tvars>>

\* A handleAdbCommand invocation parked at an executeAdbShellCommand: user and
\* accel are initialUserRot and the parsed values (adbRotateScreen) or
\* originalUser and originalAccel (cleanupAdb), current is currentRotation.
AdbCmd(id, c, t, mode, pc) ==
    [id |-> id, client |-> c, type |-> t, mode |-> mode, pc |-> pc,
     user |-> 0, accel |-> 0, current |-> 0]

\* The final ws.send of handleAdbCommand for these two command types.
Finish(q, ok) ==
    /\ adbCmds' = adbCmds \ {q}
    /\ out' = <<Msg(q.client, q.type \o "Response", IF ok THEN "" ELSE "device error")>>

Step(q, r) ==
    /\ adbCmds' = (adbCmds \ {q}) \cup {r}
    /\ out' = <<>>

\* A device call failed, or commands are in flight together.
Disturbed(ok) == undisturbed' = (undisturbed /\ ok /\ Cardinality(adbCmds) = 1)

\* case "adbRotateScreen" up to its first await: the two initial reads when the
\* device has no entry in rotationStates, else the read of the current value.
adbRotateScreen(c) ==
    /\ wsState[c] = "OPEN"
    /\ nadb < MaxAdb
    /\ Cardinality(adbCmds) < MaxH
    /\ nadb' = nadb + 1
    /\ adbCmds' = adbCmds \cup
         {AdbCmd(nadb + 1, c, "adbRotateScreen", "",
                 IF rotationStates = Absent THEN "initialUserRot" ELSE "currentRotation")}
    /\ rotBefore' = IF rotBefore = Absent
                    THEN RotationState(userRotation, accelRotation)
                    ELSE rotBefore
    /\ undisturbed' = (adbCmds = {} /\ (rotBefore = Absent \/ undisturbed))
    /\ out' = <<>>
    /\ UNCHANGED <<userRotation, accelRotation, rotationStates, nonRotation>>

\* "settings get system user_rotation" returned: a failed read counts as 0.
InitialUserRot(q, ok) ==
    /\ q.type = "adbRotateScreen" /\ q.pc = "initialUserRot"
    /\ Step(q, [q EXCEPT !.pc = "initialAccelRot",
                         !.user = IF ok THEN userRotation ELSE 0])
    /\ Disturbed(ok)
    /\ UNCHANGED <<userRotation, accelRotation, rotationStates, nadb, rotBefore,
                   nonRotation>>

\* "settings get system accelerometer_rotation" returned: a failed read counts
\* as 1, and the entry of the device is assigned.
InitialAccelRot(q, ok) ==
    /\ q.type = "adbRotateScreen" /\ q.pc = "initialAccelRot"
    /\ rotationStates' = RotationState(q.user, IF ok THEN accelRotation ELSE 1)
    /\ Step(q, [q EXCEPT !.pc = "currentRotation"])
    /\ Disturbed(ok)
    /\ UNCHANGED <<userRotation, accelRotation, nadb, rotBefore, nonRotation>>

\* The second "settings get system user_rotation" returned.
CurrentRotation(q, ok) ==
    /\ q.type = "adbRotateScreen" /\ q.pc = "currentRotation"
    /\ Step(q, [q EXCEPT !.pc = "putAccel",
                         !.current = IF ok THEN userRotation ELSE 0])
    /\ Disturbed(ok)
    /\ UNCHANGED <<userRotation, accelRotation, rotationStates, nadb, rotBefore,
                   nonRotation>>

\* "settings put system accelerometer_rotation 0" returned.
PutAccel(q, ok) ==
    /\ q.type = "adbRotateScreen" /\ q.pc = "putAccel"
    /\ accelRotation' = IF ok THEN 0 ELSE accelRotation
    /\ Step(q, [q EXCEPT !.pc = "putUser"])
    /\ Disturbed(ok)
    /\ UNCHANGED <<userRotation, rotationStates, nadb, rotBefore, nonRotation>>

\* "settings put system user_rotation nextRotation" returned; its result is
\* the answer.
PutUser(q, ok) ==
    /\ q.type = "adbRotateScreen" /\ q.pc = "putUser"
    /\ userRotation' = IF ok THEN (q.current + 1) % 4 ELSE userRotation
    /\ Finish(q, ok)
    /\ Disturbed(ok)
    /\ UNCHANGED <<accelRotation, rotationStates, nadb, rotBefore, nonRotation>>

\* case "cleanupAdb" up to its first await: wm size reset (native_taskbar) or
\* the reset of the overlay display (overlay).
cleanupAdb(c, mode) ==
    /\ wsState[c] = "OPEN"
    /\ nadb < MaxAdb
    /\ Cardinality(adbCmds) < MaxH
    /\ nadb' = nadb + 1
    /\ adbCmds' = adbCmds \cup {AdbCmd(nadb + 1, c, "cleanupAdb", mode, "reset")}
    /\ undisturbed' = (undisturbed /\ adbCmds = {})
    /\ out' = <<>>
    /\ UNCHANGED <<userRotation, accelRotation, rotationStates, rotBefore, nonRotation>>

\* The resets returned (their results go into the message only).  In mode
\* native_taskbar with an entry for the device, the entry is read and the
\* restore of user_rotation is issued; else the answer is sent.
CleanupReset(q, ok) ==
    /\ q.type = "cleanupAdb" /\ q.pc = "reset"
    /\ IF q.mode = "native_taskbar" /\ rotationStates # Absent
       THEN Step(q, [q EXCEPT !.pc = "restoreUser",
                              !.user = rotationStates.user_rotation,
                              !.accel = rotationStates.accelerometer_rotation])
       ELSE Finish(q, TRUE)
    /\ undisturbed' = (undisturbed /\ Cardinality(adbCmds) = 1)
    /\ UNCHANGED <<userRotation, accelRotation, rotationStates, nadb, rotBefore,
                   nonRotation>>

\* "settings put system user_rotation originalUser" returned.
RestoreUser(q, ok) ==
    /\ q.type = "cleanupAdb" /\ q.pc = "restoreUser"
    /\ userRotation' = IF ok THEN q.user ELSE userRotation
    /\ Step(q, [q EXCEPT !.pc = "restoreAccel"])
    /\ Disturbed(ok)
    /\ UNCHANGED <<accelRotation, rotationStates, nadb, rotBefore, nonRotation>>

\* "settings put system accelerometer_rotation originalAccel" returned: the
\* entry is deleted and the answer, always a success, is sent.
RestoreAccel(q, ok) ==
    /\ q.type = "cleanupAdb" /\ q.pc = "restoreAccel"
    /\ accelRotation' = IF ok THEN q.accel ELSE accelRotation
    /\ rotationStates' = Absent
    /\ Finish(q, TRUE)
    /\ Disturbed(ok)
    /\ rotBefore' = Absent
    /\ UNCHANGED <<userRotation, nadb, nonRotation>>

\* Client 1 streams; the device has any rotation settings.
InitRotate ==
    /\ InitAttached
    /\ android = 10
    /\ settings = [c \in Clients |-> Requested("absent", TRUE, TRUE)]
    /\ ports = <<>>
    /\ shellIO = <<>>
    /\ maxVolume = 0
    /\ devVolume = 0
    /\ devRange = 1
    /\ adbCalls = <<>>
    /\ volumeValue = Value(TRUE, 0, FALSE)
    /\ userRotation \in 0..3
    /\ accelRotation \in 0..1
    /\ rotationStates = Absent
    /\ adbCmds = {}
    /\ nadb = 0
    /\ rotBefore = Absent
    /\ undisturbed = TRUE
    /\ wifiCmds = {}
    /\ wifiLog = <<>>
    /\ NoStreaming

NextRotate ==
    \/ \E c \in Clients : adbRotateScreen(c)
    \/ \E q \in adbCmds, ok \in BOOLEAN : InitialUserRot(q, ok)
    \/ \E q \in adbCmds, ok \in BOOLEAN : InitialAccelRot(q, ok)
    \/ \E q \in adbCmds, ok \in BOOLEAN : CurrentRotation(q, ok)
    \/ \E q \in adbCmds, ok \in BOOLEAN : PutAccel(q, ok)
    \/ \E q \in adbCmds, ok \in BOOLEAN : PutUser(q, ok)
    \/ \E c \in Clients, mode \in CleanupModes : cleanupAdb(c, mode)
    \/ \E q \in adbCmds, ok \in BOOLEAN : CleanupReset(q, ok)
    \/ \E q \in adbCmds, ok \in BOOLEAN : RestoreUser(q, ok)
    \/ \E q \in adbCmds, ok \in BOOLEAN : RestoreAccel(q, ok)

SpecRotate == InitRotate /\ [][NextRotate]_vars

\* ------------------------------------------------------ claims, SpecRotate
\* A cleanupAdb in mode native_taskbar finishes its restore in this step.
Restores(q) == q \in adbCmds /\ q.pc = "restoreAccel" /\ q \notin adbCmds'

\* An adbRotateScreen sets user_rotation in this step.
Rotates(q) ==
    q \in adbCmds /\ q.pc = "putUser" /\ q \notin adbCmds' /\ out'[1].message = ""

\* C27: when a cleanupAdb with mode native_taskbar finishes after one or more
\* adbRotateScreen commands, user_rotation and accelerometer_rotation of the
\* device are the values they had before the first rotation and the device has
\* no entry in the rotation cache; each adbRotateScreen sets user_rotation to
\* the device's value plus one modulo 4, and an existing cache entry is never
\* assigned again.
C27_RotationRestored ==
    [][/\ \A q \in adbCmds :
            (Restores(q) /\ rotBefore # Absent) =>
               /\ userRotation' = rotBefore.user_rotation
               /\ accelRotation' = rotBefore.accelerometer_rotation
               /\ rotationStates' = Absent
       /\ \A q \in adbCmds : Rotates(q) => userRotation' = (userRotation + 1) % 4
       /\ rotationStates # Absent => rotationStates' \in {rotationStates, Absent}]_vars

\* The same, for commands of which none failed at the device and each was
\* answered before the next arrived.
C27_RestoredWhenUndisturbed ==
    [][/\ \A q \in adbCmds :
            (Restores(q) /\ rotBefore # Absent /\ undisturbed') =>
               /\ userRotation' = rotBefore.user_rotation
               /\ accelRotation' = rotBefore.accelerometer_rotation
               /\ rotationStates' = Absent
       /\ \A q \in adbCmds :
            (Rotates(q) /\ undisturbed') => userRotation' = (userRotation + 1) % 4
       /\ (rotationStates # Absent /\ undisturbed')
            => rotationStates' \in {rotationStates, Absent}]_vars

\* -------------------------------------------------------------- Wi-Fi toggle
\* The wifiToggle commands received, numbered in order of arrival.
WifiIds == {1}

maxAttemptsWifiOn == 10

maxAttemptsSsid == 15

\* message.enable: a boolean, or anything else.
EnableValues == {"true", "false", "other"}

\* What the SSID pipeline prints; only the last one lets the handler go on.
SsidOutputs == {"", "<unknown ssid>", "home"}

UsableSsid(ssid) == ssid # "" /\ ssid # "<unknown ssid>"

nonWifi == <<svars, cvars, pvars, kvars, wvars, evars, ports, shellIO,
             maxVolume, devVolume, devRange, adbCalls, rvars>>

\* A handler parked at a device call or at the 500 ms timer; attempts is the
\* local variable of the loop it is in.
WifiCmd(id, c, pc) == [id |-> id, client |-> c, pc |-> pc, attempts |-> 0]

\* What is known of a command: the polls it issued, whether a poll showed
\* "Wi-Fi is enabled", the last SSID output, and the answers it sent.
WifiEntry(c, enable) ==
    [client |-> c, enable |-> enable, polls |-> 0, ssidPolls |-> 0,
     sawOn |-> FALSE, ssid |-> "", answers |-> <<>>]

WifiAnswer(ok, err) == [success |-> ok, error |-> err]

\* ws.send of a wifiResponse by the handler of command id, which then returns.
Answer(log, id, ok, err) ==
    /\ wifiLog' = [log EXCEPT ![id].answers = Append(@, WifiAnswer(ok, err))]
    /\ out' = <<Msg(log[id].client, "wifiResponse", err)>>

\* handleWifiToggleCommand up to its first await: the session checks, the test
\* of message.enable, and the svc command.
wifiToggle(c, enable) ==
    LET id == Len(wifiLog) + 1
        log == Append(wifiLog, WifiEntry(c, enable))
        refusal ==
            IF c \notin wsClients \/ clientSession[c] = NULL THEN "No active session"
            ELSE IF clientSession[c] \notin DOMAIN sessions THEN "No device found"
            ELSE IF enable = "other" THEN "Invalid Wi-Fi toggle value"
            ELSE ""
    IN  /\ wsState[c] = "OPEN"
        /\ Len(wifiLog) + 1 \in WifiIds
        /\ IF refusal # ""
           THEN /\ Answer(log, id, FALSE, refusal)
                /\ UNCHANGED wifiCmds
           ELSE /\ wifiLog' = log
                /\ wifiCmds' = wifiCmds \cup {WifiCmd(id, c, "svc")}
                /\ out' = <<>>
        /\ UNCHANGED nonWifi

\* The catch block: a device call rejected.
Rejected(q) ==
    /\ Answer(wifiLog, q.id, FALSE, "Failed to toggle Wi-Fi")
    /\ wifiCmds' = wifiCmds \ {q}

\* "svc wifi enable|disable" returned: the first status poll is issued, or the
\* 500 ms wait of the disable branch begins.
SvcReturned(q, ok) ==
    /\ q.pc = "svc"
    /\ IF ~ok THEN Rejected(q)
       ELSE IF wifiLog[q.id].enable = "true"
       THEN /\ wifiCmds' = (wifiCmds \ {q}) \cup {[q EXCEPT !.pc = "pollWifi"]}
            /\ wifiLog' = [wifiLog EXCEPT ![q.id].polls = 1]
            /\ out' = <<>>
       ELSE /\ wifiCmds' = (wifiCmds \ {q}) \cup {[q EXCEPT !.pc = "disableWait"]}
            /\ out' = <<>>
            /\ UNCHANGED wifiLog
    /\ UNCHANGED nonWifi

\* Mutant of WifiPolled: the SSID loop is entered when the attempts are used
\* up, too.
WifiPolled_NoCheck(q, res) ==
    /\ q.pc = "pollWifi"
    /\ IF res = "throws" THEN Rejected(q)
       ELSE IF res = "enabled" \/ q.attempts + 1 >= maxAttemptsWifiOn
       THEN /\ wifiCmds' = (wifiCmds \ {q}) \cup
                 {[q EXCEPT !.pc = "pollSsid", !.attempts = 0]}
            /\ wifiLog' = [wifiLog EXCEPT ![q.id].sawOn = (res = "enabled"),
                                          ![q.id].ssidPolls = 1]
            /\ out' = <<>>
       ELSE /\ wifiCmds' = (wifiCmds \ {q}) \cup
                 {[q EXCEPT !.pc = "waitWifi", !.attempts = q.attempts + 1]}
            /\ out' = <<>>
            /\ UNCHANGED wifiLog
    /\ UNCHANGED nonWifi

\* A status poll returned.  "Wi-Fi is enabled" ends the first loop and issues
\* the first SSID poll; otherwise attempts is counted up and the handler waits
\* or, at the limit, answers "Wi-Fi failed to enable".
WifiPolled(q, res) ==
    /\ q.pc = "pollWifi"
    /\ IF res = "throws" THEN Rejected(q)
       ELSE IF res = "enabled"
       THEN /\ wifiCmds' = (wifiCmds \ {q}) \cup
                 {[q EXCEPT !.pc = "pollSsid", !.attempts = 0]}
            /\ wifiLog' = [wifiLog EXCEPT ![q.id].sawOn = TRUE,
                                          ![q.id].ssidPolls = 1]
            /\ out' = <<>>
       ELSE IF q.attempts + 1 < maxAttemptsWifiOn
       THEN /\ wifiCmds' = (wifiCmds \ {q}) \cup
                 {[q EXCEPT !.pc = "waitWifi", !.attempts = q.attempts + 1]}
            /\ out' = <<>>
            /\ UNCHANGED wifiLog
       ELSE /\ Answer(wifiLog, q.id, FALSE, "Wi-Fi failed to enable")
            /\ wifiCmds' = wifiCmds \ {q}
    /\ UNCHANGED nonWifi

\* The 500 ms timer of the first loop fired: the next status poll is issued.
WifiTimer(q) ==
    /\ q.pc = "waitWifi"
    /\ wifiCmds' = (wifiCmds \ {q}) \cup {[q EXCEPT !.pc = "pollWifi"]}
    /\ wifiLog' = [wifiLog EXCEPT ![q.id].polls = @ + 1]
    /\ out' = <<>>
    /\ UNCHANGED nonWifi

\* An SSID poll returned.  A usable SSID ends the loop and the success is
\* sent; otherwise attempts is counted up and the handler waits or, at the
\* limit, answers "Failed to connect to SSID".
SsidPolled(q, res) ==
    /\ q.pc = "pollSsid"
    /\ IF res = "throws" THEN Rejected(q)
       ELSE LET log == [wifiLog EXCEPT ![q.id].ssid = res]
            IN  IF UsableSsid(res)
                THEN /\ Answer(log, q.id, TRUE, "")
                     /\ wifiCmds' = wifiCmds \ {q}
                ELSE IF q.attempts + 1 < maxAttemptsSsid
                THEN /\ wifiCmds' = (wifiCmds \ {q}) \cup
                          {[q EXCEPT !.pc = "waitSsid", !.attempts = q.attempts + 1]}
                     /\ wifiLog' = log
                     /\ out' = <<>>
                ELSE /\ Answer(log, q.id, FALSE, "Failed to connect to SSID")
                     /\ wifiCmds' = wifiCmds \ {q}
    /\ UNCHANGED nonWifi

\* The 500 ms timer of the second loop fired: the next SSID poll is issued.
SsidTimer(q) ==
    /\ q.pc = "waitSsid"
    /\ wifiCmds' = (wifiCmds \ {q}) \cup {[q EXCEPT !.pc = "pollSsid"]}
    /\ wifiLog' = [wifiLog EXCEPT ![q.id].ssidPolls = @ + 1]
    /\ out' = <<>>
    /\ UNCHANGED nonWifi

\* Disable branch: the 500 ms timer fired and the one status poll is issued.
DisableTimer(q) ==
    /\ q.pc = "disableWait"
    /\ wifiCmds' = (wifiCmds \ {q}) \cup {[q EXCEPT !.pc = "disableStatus"]}
    /\ wifiLog' = [wifiLog EXCEPT ![q.id].polls = 1]
    /\ out' = <<>>
    /\ UNCHANGED nonWifi

\* Disable branch: the status poll returned; whatever it shows is sent as a
\* success.
DisableStatus(q, res) ==
    /\ q.pc = "disableStatus"
    /\ IF res = "throws" THEN Rejected(q)
       ELSE /\ Answer([wifiLog EXCEPT ![q.id].sawOn = (res = "enabled")],
                      q.id, TRUE, "")
            /\ wifiCmds' = wifiCmds \ {q}
    /\ UNCHANGED nonWifi

InitWifi ==
    /\ InitAttached
    /\ DefaultEnv

\* The steps of the handler of command id.
WifiNext(id) ==
    \E q \in wifiCmds :
      /\ q.id = id
      /\ \/ \E ok \in BOOLEAN : SvcReturned(q, ok)
         \/ \E res \in {"enabled", "disabled", "throws"} : WifiPolled(q, res)
         \/ WifiTimer(q)
         \/ \E res \in SsidOutputs \cup {"throws"} : SsidPolled(q, res)
         \/ SsidTimer(q)
         \/ DisableTimer(q)
         \/ \E res \in {"enabled", "disabled", "throws"} : DisableStatus(q, res)

NextWifi ==
    \/ \E c \in Clients, enable \in EnableValues : wifiToggle(c, enable)
    \/ \E id \in WifiIds : WifiNext(id)

SpecWifi == InitWifi /\ [][NextWifi]_vars

\* Every device call returns or rejects and every timer fires.
SpecWifiFair == SpecWifi /\ \A id \in WifiIds : WF_vars(WifiNext(id))

\* -------------------------------------------------------- claims, SpecWifi
\* The wifiToggle commands with enable true that passed the checks.
Enabling == {i \in 1..Len(wifiLog) :
               /\ wifiLog[i].enable = "true"
               /\ wifiLog[i].client \in wsClients
               /\ clientSession[wifiLog[i].client] # NULL}

Running(i) == \E q \in wifiCmds : q.id = i

\* What holds of command i at every moment.
BoundedPolling(i) ==
    LET e == wifiLog[i]
    IN  /\ e.polls <= maxAttemptsWifiOn
        /\ e.ssidPolls <= maxAttemptsSsid
        /\ e.ssidPolls > 0 => e.sawOn
        /\ Len(e.answers) = IF Running(i) THEN 0 ELSE 1
        /\ \A k \in DOMAIN e.answers :
             /\ e.answers[k].success => e.sawOn /\ UsableSsid(e.ssid)
             /\ e.answers[k].error = "Wi-Fi failed to enable"
                  => e.polls = maxAttemptsWifiOn /\ ~e.sawOn
             /\ e.answers[k].error = "Failed to connect to SSID"
                  => e.ssidPolls = maxAttemptsSsid /\ ~UsableSsid(e.ssid)
             /\ ~e.answers[k].success
                  => \/ e.answers[k].error = "Failed to toggle Wi-Fi"
                     \/ e.polls = maxAttemptsWifiOn /\ ~e.sawOn
                     \/ e.ssidPolls = maxAttemptsSsid /\ ~UsableSsid(e.ssid)

MaxStarts == 2

\* The display ids the device reports.
DisplayIds == {0, 1}

\* The display modes of the model: the branches of startStreaming for
\* native_taskbar send other commands and are left out.
DisplayModes == {"default", "overlay"}

\* The modes stopStreamingAndCleanup cleans up after.
CleanedModes == {"overlay", "native_taskbar"}

\* A start message without overlayDisplayId.
NoDisplay == -1

\* The data of a getDisplayList response, as the list of its ids.
DisplayLists ==
    {<<>>} \cup {<<a>> : a \in DisplayIds}
           \cup {l \in {<<a, b>> : a, b \in DisplayIds} : l[1] # l[2]}

\* The state the browser's stream controls leave alone.
nonBrowser == <<gateway, wvars, android, settings, volumeValue, dvars, ports,
                shellIO, pendingAdbCommands, timers, awaiting, settled>>

nonOverlay == <<nonBrowser, bvars>>

\* A start, disconnect or cleanupAdb message: by is the call of
\* startStreaming that sent it (0: none), mode its displayMode or mode field,
\* display its overlayDisplayId.
Message(action, by, mode, display) ==
    [action |-> action, by |-> by, mode |-> mode, display |-> display]

\* An entry of the log of a call: a command it sent or the response to it.
AdbCommand(type) ==
    [kind |-> "command", type |-> type, success |-> TRUE, data |-> <<>>]

CommandResponse(type, ok, data) ==
    [kind |-> "response", type |-> type, success |-> ok, data |-> data]

Logged(n, entry) == [startLog EXCEPT ![n] = Append(@, entry)]

\* A call of startStreaming parked at an await: its number, the await and
\* initialDisplayIds.
StartCall(n, pc, initial) == [n |-> n, pc |-> pc, initialDisplayIds |-> initial]

\* The awaits of a sendAdbCommandToServer and the commandType awaited there.
CommandPcs == {"list1", "overlay", "list2"}

CommandAt(pc) == IF pc = "overlay" THEN "setOverlay" ELSE "getDisplayList"

\* updatedDisplayIds.filter((id) => !initialDisplayIds.includes(id))
NewDisplayIds(updated, initial) ==
    SelectSeq(updated, LAMBDA id : \A i \in DOMAIN initial : initial[i] # id)

\* stopStreamingAndCleanup(sendDisconnect) when globalState.isRunning is
\* running: what has been sent when it returns.  It returns at once when
\* nothing runs, no disconnect is asked for and the socket is gone; it sends
\* disconnect on an open socket when asked to, and cleanupAdb with the
\* current display mode when the stream was running in a mode that is cleaned
\* up (sendAdbCommandToServer sends nothing without an open socket).  A
\* device stays selected while a stream runs.
stopStreamingAndCleanup(sendDisconnect, running) ==
    LET said == IF Connected /\ sendDisconnect
                THEN Append(wire, Message("disconnect", 0, "", NoDisplay))
                ELSE wire
    IN  IF ~running /\ ~sendDisconnect /\ ~Connected
        THEN wire
        ELSE IF running /\ currentDisplayMode \in CleanedModes /\ Connected
        THEN Append(said, Message("cleanupAdb", 0, currentDisplayMode, NoDisplay))
        ELSE said

\* handleStreamingStopped: the stream is not running any more (isRunning is
\* cleared when it was set or when sendDisconnect is false).
handleStreamingStopped ==
    /\ isRunning' = FALSE
    /\ streamMode' = "none"

\* stopStreamingAndCleanup as a step: it calls handleStreamingStopped.
Stopped(sendDisconnect, running) ==
    /\ wire' = stopStreamingAndCleanup(sendDisconnect, running)
    /\ handleStreamingStopped

\* The catch of startStreaming: stopStreamingAndCleanup(false).
Caught(q, log) ==
    /\ starts' = starts \ {q}
    /\ startLog' = log
    /\ Stopped(FALSE, isRunning)

\* The call q goes on to its next sendAdbCommandToServer, which rejects
\* without an open socket.
Issue(q, pc, initial, log) ==
    IF Connected
    THEN /\ startLog' = [log EXCEPT ![q.n] = Append(@, AdbCommand(CommandAt(pc)))]
         /\ starts' = (starts \ {q}) \cup {StartCall(q.n, pc, initial)}
         /\ UNCHANGED <<isRunning, streamMode, wire>>
    ELSE Caught(q, log)

\* The end of the overlay branch: without a new id the call throws; else the
\* start message carries newDisplayIds[0].
TakeNew(q, data, log) ==
    LET newDisplayIds == NewDisplayIds(data, q.initialDisplayIds)
    IN  IF newDisplayIds = <<>>
        THEN Caught(q, log)
        ELSE /\ wire' = Append(wire, Message("start", q.n, "overlay",
                                             newDisplayIds[1]))
             /\ streamMode' = "overlay"
             /\ starts' = starts \ {q}
             /\ startLog' = log
             /\ UNCHANGED isRunning

\* A click on Start: with a device selected, nothing running and an open
\* socket isRunning is set.  In overlay mode resolution and dpi must be set
\* and the first getDisplayList is sent; in default mode the start message is
\* sent at once.
startStreaming ==
    /\ ~isRunning
    /\ Connected
    /\ nstart < MaxStarts
    /\ nstart' = nstart + 1
    /\ IF currentDisplayMode = "overlay"
       THEN \E reset \in BOOLEAN :
              IF reset
              THEN /\ Stopped(FALSE, TRUE)
                   /\ startLog' = Append(startLog, <<>>)
                   /\ UNCHANGED starts
              ELSE /\ startLog' = Append(startLog, <<AdbCommand("getDisplayList")>>)
                   /\ starts' = starts \cup {StartCall(nstart + 1, "list1", <<>>)}
                   /\ isRunning' = TRUE
                   /\ UNCHANGED <<streamMode, wire>>
       ELSE /\ wire' = Append(wire, Message("start", nstart + 1,
                                            currentDisplayMode, NoDisplay))
            /\ startLog' = Append(startLog, <<>>)
            /\ isRunning' = TRUE
            /\ streamMode' = currentDisplayMode
            /\ UNCHANGED starts
    /\ UNCHANGED <<currentDisplayMode, sockets, gws, nonOverlay>>

\* The response to the command the call q waits for: a failure rejects the
\* promise; a success resolves it and the call runs to its next await or to
\* its end.
OnAdbResponse(q) ==
    /\ q.pc \in CommandPcs
    /\ Connected
    /\ \E ok \in BOOLEAN :
       \E data \in IF ok /\ q.pc # "overlay" THEN DisplayLists ELSE {<<>>} :
         LET log == Logged(q.n, CommandResponse(CommandAt(q.pc), ok, data))
         IN  IF ~ok
             THEN Caught(q, log)
             ELSE IF q.pc = "list1"
             THEN Issue(q, "overlay", data, log)
             ELSE IF q.pc = "overlay"
             THEN /\ startLog' = log
                  /\ starts' = (starts \ {q})
                        \cup {StartCall(q.n, "timer", q.initialDisplayIds)}
                  /\ UNCHANGED <<isRunning, streamMode, wire>>
             ELSE TakeNew(q, data, log)
    /\ UNCHANGED <<currentDisplayMode, nstart, sockets, gws, nonOverlay>>

\* The 15 s timer of the command the call q waits for: the promise is
\* rejected.
OnAdbTimeout(q) ==
    /\ q.pc \in CommandPcs
    /\ Caught(q, startLog)
    /\ UNCHANGED <<currentDisplayMode, nstart, sockets, gws, nonOverlay>>

\* The 2000 ms timer after setOverlay: the second getDisplayList is sent.
OnOverlayTimer(q) ==
    /\ q.pc = "timer"
    /\ Issue(q, "list2", q.initialDisplayIds, startLog)
    /\ UNCHANGED <<currentDisplayMode, nstart, sockets, gws, nonOverlay>>

\* A click on Stop (the button is enabled while isRunning is set):
\* stopStreamingAndCleanup(true).
StopClicked ==
    /\ isRunning
    /\ Stopped(TRUE, isRunning)
    /\ UNCHANGED <<currentDisplayMode, starts, nstart, startLog, sockets, gws,
                   nonOverlay>>

\* A start message has been sent: the gateway may have a stream to end.
Started == \E k \in DOMAIN wire : wire[k].action = "start"

\* The gateway's status message "Streaming stopped" or a message of type
\* error: handleStreamingStopped(false) in both cases.
OnStreamingStopped ==
    /\ Connected
    /\ Started
    /\ handleStreamingStopped
    /\ UNCHANGED <<currentDisplayMode, starts, nstart, startLog, wire, sockets,
                   gws, nonOverlay>>

\* ws.onclose: handleStreamingStopped(false) when a stream runs,
\* globalState.ws is cleared and every pending command is rejected; the
\* catch of each waiting call then finds nothing running and no socket, and
\* stopStreamingAndCleanup returns at once.
OnSocketClosed ==
    /\ Connected
    /\ sockets' = [sockets EXCEPT ![gws] = "CLOSED"]
    /\ gws' = NULL
    /\ isRunning' = FALSE
    /\ streamMode' = "none"
    /\ starts' = {q \in starts : q.pc = "timer"}
    /\ UNCHANGED <<currentDisplayMode, nstart, startLog, wire, nonOverlay>>

\* A display mode checkbox is checked: the boxes are enabled while nothing
\* runs.
ChangeDisplayMode(m) ==
    /\ ~isRunning
    /\ m # currentDisplayMode
    /\ currentDisplayMode' = m
    /\ UNCHANGED <<isRunning, starts, nstart, startLog, wire, streamMode,
                   sockets, gws, nonOverlay>>

NextOverlay ==
    \/ initializeWebSocket
    \/ startStreaming
    \/ \E q \in starts : OnAdbResponse(q)
    \/ \E q \in starts : OnAdbTimeout(q)
    \/ \E q \in starts : OnOverlayTimer(q)
    \/ StopClicked
    \/ OnStreamingStopped
    \/ OnSocketClosed
    \/ \E m \in DisplayModes : ChangeDisplayMode(m)

SpecOverlay == Init /\ [][NextOverlay]_vars

\* ------------------------------------------------------ claims, SpecOverlay
Ids(list) == {list[i] : i \in DOMAIN list}

\* Entry k of the log of a call is the successful response to a command of
\* the type, which is the entry before it.
Answered(log, k, type) ==
    /\ k > 1
    /\ log[k].kind = "response"
    /\ log[k].success
    /\ log[k - 1].kind = "command"
    /\ log[k - 1].type = type

StartsOf(n) == {k \in DOMAIN wire : wire[k].action = "start" /\ wire[k].by = n}

\* Every start message of overlay mode was sent by a call that had received
\* the three responses in order, and carries an id of the second list that is
\* not in the first.
StartOrdered ==
    \A k \in DOMAIN wire :
      wire[k].action = "start" /\ wire[k].mode = "overlay" =>
        LET log == startLog[wire[k].by]
        IN  \E a, b, c \in DOMAIN log :
              /\ a < b
              /\ b < c
              /\ Answered(log, a, "getDisplayList")
              /\ Answered(log, b, "setOverlay")
              /\ Answered(log, c, "getDisplayList")
              /\ wire[k].display \in Ids(log[c].data)
              /\ wire[k].display \notin Ids(log[a].data)

\* A command of call n failed.
Refused(n) ==
    \E k \in DOMAIN startLog[n] :
      startLog[n][k].kind = "response" /\ ~startLog[n][k].success

\* The second list of call n has no id that is not in the first.
NoNewId(n) ==
    \E a, c \in DOMAIN startLog[n] :
      /\ a < c
      /\ Answered(startLog[n], a, "getDisplayList")
      /\ Answered(startLog[n], c, "getDisplayList")
      /\ Ids(startLog[n][c].data) \subseteq Ids(startLog[n][a].data)

NoStartAfterFailure ==
    \A n \in DOMAIN startLog : Refused(n) \/ NoNewId(n) => StartsOf(n) = {}

\* A running overlay stream is stopped by this step.
OverlayStops == isRunning /\ ~isRunning' /\ streamMode = "overlay"

\* This step sends disconnect: it is a click on Stop.
DisconnectSent ==
    /\ Len(wire') > Len(wire)
    /\ wire'[Len(wire) + 1].action = "disconnect"

\* The last message this step sends is cleanupAdb with mode overlay.
CleanupSent ==
    /\ Len(wire') > Len(wire)
    /\ wire'[Len(wire')].action = "cleanupAdb"
    /\ wire'[Len(wire')].mode = "overlay"

\* C30: in overlay mode the start message is sent only after the responses
\* to getDisplayList, setOverlay and a second getDisplayList were received in
\* this order, and its overlayDisplayId is in the second list and not in the
\* first; no start is sent when a command fails or no new id exists; and
\* every step that stops a running overlay stream sends cleanupAdb with mode
\* overlay.
C30_OverlayStartAndCleanup ==
    /\ []StartOrdered
    /\ []NoStartAfterFailure
    /\ [][OverlayStops => CleanupSent]_vars

\* C30, the start of the stream alone: it holds.
C30_StartAfterResponses == StartOrdered /\ NoStartAfterFailure

\* C30, the click on Stop alone, while overlay is still the display mode: it
\* holds.
C30_CleanupOnStopClick ==
    [][OverlayStops /\ DisconnectSent /\ currentDisplayMode = "overlay"
         => CleanupSent]_vars

\* This step sends a start message.
StartSent ==
    /\ Len(wire') > Len(wire)
    /\ wire'[Len(wire')].action = "start"

\* C38: a start message is sent only while isRunning is set, and not before
\* the stream started before it was stopped; so after a stop during the
\* pre-start commands no start follows.
C38_StartOnlyWhileRunning ==
    [][StartSent => isRunning' /\ streamMode = "none"]_vars

\* ------------------------------------------- native_taskbar: WM size and dpi
\* a / b as a double for integers 0 <= a, 0 < b < 2^12 and a / b < 2^17: the
\* integer part and then long division of the remainder, 53 bits in all,
\* rounded by what is left.
Ratio(a, b) ==
    IF a % b = 0 THEN FromInt(a \div b)
    ELSE IF a < b THEN Quotient(a, b)
    ELSE LET s == 17 - BitLength(a \div b)
             t2 == (a % b) * 2 ^ s
             t1 == (t2 % b) * Limb
             t0 == (t1 % b) * Limb
             left == t0 % b
             x == [hi |-> (a \div b) * 2 ^ s + t2 \div b, mid |-> t1 \div b,
                   lo |-> t0 \div b, scale |-> 36 + s]
             up == \/ 2 * left > b
                   \/ 2 * left = b /\ x.lo % 2 = 1
         IN  IF up THEN Up(x) ELSE x

targetSmallestWidth == 600

\* The text of the resolution field: "reset", a text without an x, or two
\* decimal numerals around an x.
ResetText == [kind |-> "reset", a |-> 0, b |-> 0]

PlainText(n) == [kind |-> "text", a |-> n, b |-> 0]

PairText(a, b) == [kind |-> "pair", a |-> a, b |-> b]

\* The text of the dpi field: "reset", a decimal numeral, or a text parseInt
\* makes nothing of.
NumberText(n) == [kind |-> "number", a |-> n, b |-> 0]

OtherText == [kind |-> "other", a |-> 0, b |-> 0]

\* The widths, heights and densities asked for.
Widths == {480, 1920}

Heights == {0, 2, 13, 600, 720, 1080, 1440, 2400}

Dpis == {0, 1, 3, 4, 160, 191, 192, 193, 288, 289, 640, 641}

Resolutions ==
    {ResetText, PlainText(1080)} \cup {PairText(w, h) : w \in Widths, h \in Heights}

DpiTexts == {ResetText, OtherText} \cup {NumberText(d) : d \in Dpis}

\* Math.round((originalHeight / targetSmallestWidth) * 160)
MagicDpi(originalHeight) ==
    MathRound(Times(Ratio(originalHeight, targetSmallestWidth), 160))

\* finalResolution: a resolution with an x is split at it and written with
\* its two numbers exchanged.
FinalResolution(resolution) ==
    IF resolution.kind = "pair"
    THEN PairText(resolution.b, resolution.a)
    ELSE resolution

\* Mutant of FinalDpi: the magic DPI is taken whatever the DPI asked for.
FinalDpi_Always(resolution, dpi) ==
    IF resolution.kind = "pair" /\ dpi.kind = "number"
    THEN NumberText(MagicDpi(resolution.b))
    ELSE dpi

\* finalDpi: with a split resolution and a DPI that parses, the DPI is
\* replaced by the magic DPI of the second number when it is above it.
FinalDpi(resolution, dpi) ==
    IF resolution.kind = "pair" /\ dpi.kind = "number"
         /\ dpi.a > MagicDpi(resolution.b)
    THEN NumberText(MagicDpi(resolution.b))
    ELSE dpi

\* An entry of wmLog: a WM command or the start message, with the resolution
\* or dpi it carries.
WmEntry(type, resolution, dpi) ==
    [type |-> type, resolution |-> resolution, dpi |-> dpi]

\* The native_taskbar branch of call n from the point after `pc` with the
\* entries in log: the next command that is not skipped is sent and awaited (it rejects
\* at once without an open socket, and the catch stops the stream); after the
\* last one the start message is sent with the final resolution and dpi.
WmContinue(pc, s, log, n) ==
    LET finalResolution == FinalResolution(s.resolution)
        finalDpi == FinalDpi(s.resolution, s.dpi)
        command ==
            IF pc = "begin" /\ finalResolution # ResetText
            THEN WmEntry("setWmSize", finalResolution, ResetText)
            ELSE IF pc # "density" /\ finalDpi # ResetText
            THEN WmEntry("setWmDensity", ResetText, finalDpi)
            ELSE WmEntry("start", finalResolution, finalDpi)
    IN  IF command.type = "start"
        THEN /\ wmLog' = Append(log, command)
             /\ wmPc' = "idle"
             /\ wire' = Append(wire, Message("start", n, "native_taskbar",
                                             NoDisplay))
             /\ streamMode' = "native_taskbar"
             /\ isRunning' = TRUE
        ELSE IF Connected
        THEN /\ wmLog' = Append(log, command)
             /\ wmPc' = IF command.type = "setWmSize" THEN "size" ELSE "density"
             /\ isRunning' = TRUE
             /\ UNCHANGED <<wire, streamMode>>
        ELSE /\ wmLog' = log
             /\ wmPc' = "idle"
             /\ Stopped(FALSE, TRUE)

\* The display mode checkbox for native_taskbar is ticked.
SelectNativeTaskbar ==
    /\ ~isRunning
    /\ currentDisplayMode # "native_taskbar"
    /\ currentDisplayMode' = "native_taskbar"
    /\ UNCHANGED <<isRunning, starts, nstart, startLog, wire, streamMode,
                   sockets, gws, nonBrowser, bvars>>

\* A click on Start in native_taskbar mode, with the resolution and dpi
\* fields as getStreamSettings reads them.
startNativeTaskbar ==
    /\ ~isRunning
    /\ Connected
    /\ currentDisplayMode = "native_taskbar"
    /\ wmPc = "idle"
    /\ nstart < MaxStarts
    /\ nstart' = nstart + 1
    /\ \E resolution \in Resolutions, dpi \in DpiTexts :
         /\ wmSettings' = [resolution |-> resolution, dpi |-> dpi]
         /\ WmContinue("begin", [resolution |-> resolution, dpi |-> dpi], <<>>,
                       nstart + 1)
    /\ UNCHANGED <<currentDisplayMode, starts, startLog, sockets, gws, decoded,
                   nonBrowser>>

\* The WM command awaited is answered: a failure (or the 15 s timer) rejects
\* and the catch stops the stream; a success lets the call go on.
OnWmResponse ==
    /\ wmPc \in {"size", "density"}
    /\ \E ok \in BOOLEAN :
         IF ok
         THEN WmContinue(wmPc, wmSettings, wmLog, nstart)
         ELSE /\ wmPc' = "idle"
              /\ Stopped(FALSE, isRunning)
              /\ UNCHANGED wmLog
    /\ UNCHANGED <<wmSettings, currentDisplayMode, starts, nstart, startLog,
                   sockets, gws, decoded, nonBrowser>>

NextTaskbar ==
    \/ initializeWebSocket
    \/ SelectNativeTaskbar
    \/ startNativeTaskbar
    \/ OnWmResponse
    \/ OnStreamingStopped

SpecTaskbar == Init /\ [][NextTaskbar]_vars

\* ------------------------------------------------------ claims, SpecTaskbar
\* H / 600 * 160 rounded to the nearest integer, in integers.
Nearest(h) == (2 * 160 * h + targetSmallestWidth) \div (2 * targetSmallestWidth)

Least(a, b) == IF a < b THEN a ELSE b

\* C31: in native_taskbar mode, with a resolution WxH and a DPI d asked for,
\* every setWmSize sent carries HxW and every setWmDensity sent carries the
\* smaller one of d and H / 600 * 160 rounded to the nearest integer (so the
\* DPI is never raised, and is kept when it is not above that number); the
\* size is set before the density and the start message carries both.
C31_FlippedAndClamped ==
    (wmSettings.resolution.kind = "pair" /\ wmSettings.dpi.kind = "number") =>
       LET w == wmSettings.resolution.a
           h == wmSettings.resolution.b
           d == wmSettings.dpi.a
           size == WmEntry("setWmSize", PairText(h, w), ResetText)
           density == WmEntry("setWmDensity", ResetText,
                              NumberText(Least(d, Nearest(h))))
           start == WmEntry("start", PairText(h, w),
                            NumberText(Least(d, Nearest(h))))
       IN  /\ wmLog \in {<<>>, <<size>>, <<size, density>>,
                         <<size, density, start>>}
           /\ wmPc = "size" => wmLog = <<size>>
           /\ wmPc = "density" => wmLog = <<size, density>>
           /\ (wmPc = "idle" /\ isRunning) => wmLog = <<size, density, start>>

\* C31 witness: 1920x1080 at 640 dpi was asked for; 1080x1920 and 288 were
\* set and the stream was started with them.
C31_Witness ==
    /\ wmSettings = [resolution |-> PairText(1920, 1080), dpi |-> NumberText(640)]
    /\ wmLog = <<WmEntry("setWmSize", PairText(1080, 1920), ResetText),
                 WmEntry("setWmDensity", ResetText, NumberText(288)),
                 WmEntry("start", PairText(1080, 1920), NumberText(288))>>
    /\ isRunning

\* ------------------------------------------------- binary packets, browser
BINARY_PACKET_TYPES ==
    [LEGACY_VIDEO_H264 |-> 0, LEGACY_AUDIO_AAC_ADTS |-> 1,
     WC_VIDEO_CONFIG_H264 |-> 16, WC_VIDEO_KEY_FRAME_H264 |-> 17,
     WC_VIDEO_DELTA_FRAME_H264 |-> 18, WC_AUDIO_CONFIG_AAC |-> 32,
     WC_AUDIO_FRAME_AAC |-> 33]

DECODER_TYPES == {"mse", "broadway", "webcodecs"}

\* The tags followed by a timestamp, and the length of the header of a tag
\* after the tag itself.
Timestamped ==
    {BINARY_PACKET_TYPES.WC_VIDEO_KEY_FRAME_H264,
     BINARY_PACKET_TYPES.WC_VIDEO_DELTA_FRAME_H264,
     BINARY_PACKET_TYPES.WC_AUDIO_FRAME_AAC}

\* Timestamps as eight bytes, the first the most significant: 0, 258,
\* 2^53 - 1, 2^53, 2^53 + 1, 2^53 + 3, 2^62 + 1000 and 2^64 - 1.
Timestamps ==
    {<<0, 0, 0, 0, 0, 0, 0, 0>>, <<0, 0, 0, 0, 0, 0, 1, 2>>,
     <<0, 31, 255, 255, 255, 255, 255, 255>>, <<0, 32, 0, 0, 0, 0, 0, 0>>,
     <<0, 32, 0, 0, 0, 0, 0, 1>>, <<0, 32, 0, 0, 0, 0, 0, 3>>,
     <<64, 0, 0, 0, 0, 0, 3, 232>>,
     <<255, 255, 255, 255, 255, 255, 255, 255>>}

\* profile, compat and level of a video config.
SpsInfos == {<<66, 192, 31>>, <<100, 0, 40>>}

Payloads == {<<>>, <<0, 255>>}

\* The envelope of a tag, its header and its payload: the bytes one after
\* the other.
Envelope(tag, header, payload) == <<tag>> \o header \o payload

\* The headers a tag may be followed by.
Headers(tag) ==
    IF tag \in Timestamped THEN Timestamps
    ELSE IF tag = BINARY_PACKET_TYPES.WC_VIDEO_CONFIG_H264 THEN SpsInfos
    ELSE {<<>>}

\* The tags of the envelope table, and the envelopes built from them.
EnvelopeTags ==
    Timestamped \cup {BINARY_PACKET_TYPES.WC_VIDEO_CONFIG_H264,
                      BINARY_PACKET_TYPES.WC_AUDIO_CONFIG_AAC}

Legal ==
    UNION {{[tag |-> t, header |-> h, payload |-> p] :
              h \in Headers(t), p \in Payloads} : t \in EnvelopeTags}

\* Binary messages that are not envelopes of the table: nothing at all, a
\* legacy packet, an unknown tag, and envelopes cut off inside their header.
Others ==
    {<<>>, <<0, 7>>, <<1, 7>>, <<127, 7>>}
    \cup UNION {{SubSeq(Envelope(e.tag, e.header, <<>>), 1, k) :
                   k \in 1..Len(e.header)} : e \in {l \in Legal : l.header # <<>>}}

\* dataView.getBigUint64(1, false): the eight bytes after the tag as the
\* four 16-bit words of the integer, the most significant first.
getBigUint64(packet) ==
    [i \in 1..4 |-> packet[2 * i] * 256 + packet[2 * i + 1]]

\* Number(timestamp) for a BigInt below 2^64: the double nearest to it (ties
\* to the even significand), as the integer that double is equal to, in five
\* 16-bit words.  A BigInt of more than 53 bits loses its last bits.
ToNumber(words) ==
    LET top == IF words[1] # 0 THEN 1 ELSE IF words[2] # 0 THEN 2
               ELSE IF words[3] # 0 THEN 3 ELSE 4
        bits == 16 * (4 - top) + BitLength(words[top])
        c == 2 ^ (IF bits > 53 THEN bits - 53 ELSE 0)
        rem == words[4] % c
        up == \/ 2 * rem > c
              \/ 2 * rem = c /\ (words[4] \div c) % 2 = 1
        s4 == words[4] - rem + (IF up THEN c ELSE 0)
        s3 == words[3] + s4 \div 65536
        s2 == words[2] + s3 \div 65536
        s1 == words[1] + s2 \div 65536
    IN  <<s1 \div 65536, s1 % 65536, s2 % 65536, s3 % 65536, s4 % 65536>>

\* arrayBuffer.slice(n)
Slice(packet, n) == SubSeq(packet, n + 1, Len(packet))

\* A call of a decoder function with what it is given (<<>>: not given).
DecoderCall(fn, header, timestamp, payload) ==
    [fn |-> fn, header |-> header, timestamp |-> timestamp, payload |-> payload]

\* The binary branch of onmessage while the stream is running: the decoder
\* calls made for a packet, given the decoder type and the audio checkbox.
Decode(packet, decoderType, audio) ==
    LET T == BINARY_PACKET_TYPES
        packetType == packet[1]
    IN  IF Len(packet) < 1 THEN <<>>
        ELSE IF packetType = T.LEGACY_VIDEO_H264
        THEN IF decoderType \in {"mse", "broadway"}
             THEN <<DecoderCall("processVideoData", <<>>, <<>>, Slice(packet, 1))>>
             ELSE <<>>
        ELSE IF packetType = T.LEGACY_AUDIO_AAC_ADTS THEN <<>>
        ELSE IF packetType = T.WC_VIDEO_CONFIG_H264
        THEN IF Len(packet) < 4 \/ decoderType # "webcodecs" THEN <<>>
             ELSE <<DecoderCall("configureWebCodecsVideoDecoder",
                                <<packet[2], packet[3], packet[4]>>, <<>>,
                                Slice(packet, 4))>>
        ELSE IF packetType \in {T.WC_VIDEO_KEY_FRAME_H264, T.WC_VIDEO_DELTA_FRAME_H264}
        THEN IF Len(packet) < 9 \/ decoderType # "webcodecs" THEN <<>>
             ELSE <<DecoderCall("processVideoData",
                                <<IF packetType = T.WC_VIDEO_KEY_FRAME_H264
                                  THEN "key" ELSE "delta">>,
                                ToNumber(getBigUint64(packet)), Slice(packet, 9))>>
        ELSE IF packetType = T.WC_AUDIO_CONFIG_AAC
        THEN IF audio
             THEN <<DecoderCall("setupAudioDecoder", <<>>, <<>>, Slice(packet, 1))>>
             ELSE <<>>
        ELSE IF packetType = T.WC_AUDIO_FRAME_AAC
        THEN IF Len(packet) < 9 \/ ~audio THEN <<>>
             ELSE <<DecoderCall("processAudioData", <<>>,
                                ToNumber(getBigUint64(packet)), Slice(packet, 9))>>
        ELSE <<>>

\* A binary message and what was done with it.
Decoded(packet, running, decoderType, audio, calls) ==
    [packet |-> packet, running |-> running, decoderType |-> decoderType,
     audio |-> audio, calls |-> calls]

\* ws.onmessage for an ArrayBuffer: decoded while the stream is running, left
\* alone otherwise.
OnBinaryMessage ==
    /\ Connected
    /\ \E packet \in {Envelope(e.tag, e.header, e.payload) : e \in Legal} \cup Others,
          decoderType \in DECODER_TYPES, audio \in BOOLEAN :
         decoded' = <<Decoded(packet, isRunning, decoderType, audio,
                              IF isRunning THEN Decode(packet, decoderType, audio)
                              ELSE <<>>)>>
    /\ UNCHANGED <<ovars, wmSettings, wmPc, wmLog, sockets, gws, nonBrowser>>

NextDecode ==
    \/ initializeWebSocket
    \/ startStreaming
    \/ StopClicked
    \/ OnBinaryMessage

SpecDecode == Init /\ [][NextDecode]_vars

\* ------------------------------------------------------- claims, SpecDecode
\* The decoder the envelope e goes to is switched on in the message d.
Wanted(e, d) ==
    IF e.tag \in {BINARY_PACKET_TYPES.WC_AUDIO_CONFIG_AAC,
                  BINARY_PACKET_TYPES.WC_AUDIO_FRAME_AAC}
    THEN d.audio
    ELSE d.decoderType = "webcodecs"

\* The timestamp written in the eight header bytes h, as an integer in five
\* 16-bit words.
Microseconds(h) == <<0>> \o [i \in 1..4 |-> h[2 * i - 1] * 256 + h[2 * i]]

\* The last message was cut off inside the header of its tag.
TooShort(d) ==
    /\ d.packet # <<>>
    /\ \/ d.packet[1] \in Timestamped /\ Len(d.packet) < 9
       \/ d.packet[1] = BINARY_PACKET_TYPES.WC_VIDEO_CONFIG_H264 /\ Len(d.packet) < 4

\* C32: a legal envelope that arrives while the stream is running and whose
\* decoder is switched on is handed to one decoder with exactly its
\* timestamp, its header bytes and its payload; a message too short for its
\* header and a message that arrives while nothing is running are handed to
\* no decoder.
C32_EnvelopeRoundTrip ==
    \A k \in DOMAIN decoded :
      LET d == decoded[k]
      IN  /\ ~d.running => d.calls = <<>>
          /\ TooShort(d) => d.calls = <<>>
          /\ \A e \in Legal :
               (d.running /\ d.packet = Envelope(e.tag, e.header, e.payload)
                  /\ Wanted(e, d)) =>
                 /\ Len(d.calls) = 1
                 /\ d.calls[1].payload = e.payload
                 /\ IF e.tag \in Timestamped
                    THEN d.calls[1].timestamp = Microseconds(e.header)
                    ELSE d.calls[1].header = e.header

====
